---- MODULE Spec2Model ----
(***************************************************************************)
(* Task execution engine of nanobrowser: Executor.run / _execute_task,     *)
(* PlannerAgent.process_request, NavigatorAgent.process_request and the     *)
(* events they emit.                                                        *)
(*                                                                          *)
(* The program runs on one asyncio event loop: code between two awaits is   *)
(* atomic.  Every action below resumes one caller of Executor.run from the  *)
(* await it is suspended at (its pc), with the outcome of the awaited       *)
(* operation, and runs the code up to the next await.                       *)
(***************************************************************************)
EXTENDS Integers, Sequences, FiniteSets, TLC

\* ------------------------------------------------------------------ bounds
MaxFaults == 1         \* awaited operations that raise in one behaviour
MaxStepsArg == 2       \* largest max_steps argument of run()
MaxErrorsCfg == 2      \* largest max_errors given at construction
MaxRoundsCfg == 2      \* largest max_tool_rounds given at construction
MaxToolCalls == 1      \* most tool calls in one decision-service reply
MaxBusCalls == 5       \* calls of subscribe, unsubscribe and emit in one behaviour
MaxSessionCalls == 2   \* calls of the session's and the engine's start-up interface
MaxTmCalls == 4        \* calls of the TaskManager's interface in one behaviour
MaxEmits == 1          \* emit() calls in one behaviour
MaxSubTasks == 2       \* most sub-tasks the planner proposes in the scenario runs
MaxPages == 2          \* tabs the browser has when the program starts to work with it
MaxPageCalls == 2      \* set_current_page() calls in one behaviour

\* ------------------------------------------------------- program constants
PlannerRetries == 3    \* planner.py:75  while retry < 3

Callers == {1, 2}
None == "<None>"                       \* Python's None
EmptyId == ""                          \* the empty string, a str like any other
TaskIds == {EmptyId, "t1", "t2"}
SubTasks == {"open weather site", "read temperature"}
FinalResponse == "18C"
NavigatorOutput == "done"
PlanText == "1. open weather site 2. read temperature"
CancelledMsg == "Task cancelled"       \* planner.py:90, navigator.py:144
NoNextStepMsg == "Only plan provided, but no next step provided"  \* planner.py:112
TooManyRoundsMsg == "too many rounds of tool calls in subtask"    \* navigator.py:150
MaxStepsMsg(step) == "Task failed with max steps reached: " \o ToString(step)        \* executor.py:178
MaxErrorsMsg(error) == "Task failed with max errors encountered: " \o ToString(error)  \* executor.py:183
AttrErrorMsg == "'AgentContext' object has no attribute 'stop_task_now'"
NoneResultMsg == "'NoneType' object has no attribute 'model_dump_json'"
NoNextStepAttrMsg == "'NoneType' object has no attribute 'next_step'"
ValidationMsg == "1 validation error for EventData details"
WriteErrorMsg == "write error"         \* an OSError of open() or json.dump, base.py:85-88
NoText == ""                           \* str(e) of an exception raised without a message
ErrorTexts == {"decision service error", NoText}
PageInfo == "https://weather.example | Weather"   \* url and title of the current page
\* executor.py:125
RunningMsg(id) ==
    "Another task is currently running. Please wait for it to complete. Task ID: " \o id

VARIABLES
    current_task_id,     \* Executor._current_task_id
    lock,                \* Executor._lock: 0 free, else the caller holding it
    ctx,                 \* AgentContext: task_id, step, tool_round, error, max_*
    stop_task_now,       \* the cancel flag the agents read from the context
    planner_history,     \* PlannerAgent.message_history
    navigator_history,   \* NavigatorAgent.message_history
    messages_of,         \* per role: the list object its history's `messages` resolves to
    events,              \* per task id: the Events emitted carrying it, in order
    chat_files,          \* the transcript files written under path_manager.messages, in order
    pc,                  \* per caller: the await its run() is suspended at
    loc,                 \* per caller: the local variables of its coroutine
    faults,              \* awaited operations that raised so far
    subscribers,         \* EventManager._subscribers: topic -> list of callbacks
    emits,               \* the emit() calls made: gathered callbacks and how far each ran
    bus_log,             \* the calls of the EventManager's interface, in order
    current_task,        \* TaskManager.current_task
    saved,               \* the task files under tasks_dir, by task id
    tm_log,              \* the calls of the TaskManager's interface and their outcomes
    initialized,         \* Executor._initialized
    session,             \* PlaywrightManager: its fields, see InitSession
    spc,                 \* per caller: the await its session operation is suspended at
    sop,                 \* per caller: the session operation it has called
    session_log,         \* the session's calls and protocol steps, in order
    pages,               \* BrowserContext._context.pages, in the order they were opened
    current_page,        \* BrowserContext._current_page: an index into pages, 0 for None
    scp,                 \* the set_current_page() call in flight and the await it is at
    page_log,            \* the page session's calls: argument, state found, outcome
    server               \* WebSocketServer: connections, tasks created, event handlers in flight

engine_vars == <<current_task_id, lock, ctx, stop_task_now, planner_history,
                 navigator_history, messages_of, events, chat_files, pc, loc>>
bus_vars == <<subscribers, emits, bus_log>>
tm_vars == <<current_task, saved, tm_log>>
session_vars == <<initialized, session, spc, sop, session_log>>
pages_vars == <<pages, current_page, scp, page_log>>
vars == <<engine_vars, faults, bus_vars, tm_vars, session_vars, pages_vars, server>>

\* What an operation of one component leaves alone in the others
not_engine == <<bus_vars, tm_vars, session_vars, pages_vars, server>>
not_bus == <<engine_vars, tm_vars, session_vars, pages_vars, server>>
not_tm == <<engine_vars, bus_vars, session_vars, pages_vars, server>>
not_session == <<current_task_id, ctx, stop_task_now, planner_history, navigator_history,
                 messages_of, events, chat_files, pc, loc, bus_vars, tm_vars, pages_vars, server>>
not_pages == <<engine_vars, bus_vars, tm_vars, session_vars, server>>
not_server == <<engine_vars, bus_vars, session_vars, pages_vars>>

\* Python truthiness of an Optional[str]: None and "" are both falsy.
Truthy(x) == x # None /\ x # ""

\* ------------------------------------------------------------------ events
\* event/base.py: Event(state, actor, data = EventData(task_id, step, tool_round,
\* details, plan)); plan is None unless the planner attaches one
Event(state, actor, task_id, step, tool_round, details) ==
    [state |-> state, actor |-> actor, task_id |-> task_id, step |-> step,
     tool_round |-> tool_round, details |-> details, plan |-> None]

\* A message of a conversation history (base.py:59-74, navigator.py:89-131):
\* its role, its text, and for a user message the url and title it quotes.
Message(role, text, page) == [role |-> role, text |-> text, page |-> page]
SystemMessage(actor) == Message("system", actor \o " prompt", None)
HumanMessage(user_input) == Message("human", user_input, PageInfo)
RoundPrompt == "Please analyze the results of the above tool calls"   \* navigator.py:122-126

\* in_memory_history.py:6-13  `messages` is declared on the class with one list
\* as its value: a history instance that has never assigned the attribute reads
\* the class's list, and clear() assigns the instance a list of its own.
ClassList == [planner |-> "class", navigator |-> "class"]
OwnLists == [planner |-> "planner", navigator |-> "navigator"]
Aliased(obj) == obj.planner = obj.navigator

\* The view of the state one caller's code works on: the shared objects plus
\* that caller's own pc and locals (m.pc, m.l).
Emit(m, e) == [m EXCEPT !.ev[e.task_id] = Append(@, e)]
At(m, label) == [m EXCEPT !.pc = label]

NoResult == [terminated |-> FALSE, next_step |-> None, final_response |-> None, plan |-> None]

InitLocals ==
    [task |-> None, task_id |-> None, max_steps |-> 0, tab_id |-> None,
     accepted |-> FALSE, outcome |-> "none",
     exc |-> None,       \* the text of the exception on its way out of run()
     next_step |-> None, ev_task |-> None, ev_step |-> 0,
     user_input |-> None, err |-> None, result |-> NoResult, llm_calls |-> 0,
     allowed_tool_rounds |-> 0, nev_task |-> None, nev_step |-> 0, nev_round |-> 0,
     pending |-> 0, final_message |-> "",
     returns |-> <<>>,   \* what each role call returned to the loop, in order
     step_states |-> <<>>]   \* the StepState each _plan / _navigate call returned

\* ---------------------------------------------------------------- Executor
\* executor.py:124  if self._current_task_id:
TaskBound(cur) == Truthy(cur)

\* The budget test without equality: one more step than max_steps.
StepBudgetExhaustedStrict(c) == c.step > c.max_steps

\* executor.py:177  if self._agent_context.step >= self._agent_context.max_steps
StepBudgetExhausted(c) == c.step >= c.max_steps

\* The budget test without equality: one more error than max_errors.
ErrorBudgetExhaustedStrict(c) == c.error > c.max_errors

\* executor.py:182  if self._agent_context.error >= self._agent_context.max_errors
ErrorBudgetExhausted(c) == c.error >= c.max_errors

\* The bound task cleared on normal return only, not in a finally clause.
RunFinallyOnReturn(m) ==
    IF m.lk = 0
    THEN [m EXCEPT !.cur = IF m.l.exc # None THEN @ ELSE None, !.pc = "idle",
                   !.l.outcome = IF m.l.exc # None THEN "raised" ELSE "returned"]
    ELSE At(m, "release")

\* executor.py:141-144  finally: async with self._lock: self._current_task_id = None
\* With the lock held by a rejecting run() the coroutine waits (pc "release").
RunFinally(m) ==
    IF m.lk = 0
    THEN [m EXCEPT !.cur = None, !.pc = "idle",
                   !.l.outcome = IF m.l.exc # None THEN "raised" ELSE "returned"]
    ELSE At(m, "release")

\* base.py:81-90  save_chat_history: the role's messages written to the file
\* named by the context's task id (read now) and the role.  The record notes
\* what the write found: the last event of that task and the bound task.
SaveChatHistory(m, role) ==
    LET id == m.ctx.task_id IN
    [m EXCEPT !.files = Append(@,
        [task_id |-> id, role |-> role,
         messages |-> IF role = "planner" THEN m.ph ELSE m.nh,
         after |-> IF m.ev[id] = <<>> THEN None ELSE m.ev[id][Len(m.ev[id])].state,
         bound |-> m.cur])]

\* The transcripts written after run()'s finally clause instead of before it.
ExecuteTaskFinallyLate(m, writes) ==
    LET m0 == RunFinally(IF writes = 2 THEN m ELSE [m EXCEPT !.l.exc = WriteErrorMsg])
        m1 == IF writes >= 1 THEN SaveChatHistory(m0, "planner") ELSE m0
    IN IF writes >= 2 THEN SaveChatHistory(m1, "navigator") ELSE m1

\* executor.py:214-217  finally: the planner's transcript is saved, then the
\* navigator's (synchronous file writes); writes says how many succeed.  A
\* failing write skips what follows it and escapes _execute_task and run().
ExecuteTaskFinally(m, writes) ==
    LET m1 == IF writes >= 1 THEN SaveChatHistory(m, "planner") ELSE m
        m2 == IF writes >= 2 THEN SaveChatHistory(m1, "navigator") ELSE m1
    IN RunFinally(IF writes = 2 THEN m2 ELSE [m2 EXCEPT !.l.exc = WriteErrorMsg])

\* A role's process_request has returned or raised: its frame is gone
\* (planner.py:87-91, 117-121, 128-132, 145-149; navigator.py alike).
LeaveRole(m) ==
    [m EXCEPT !.l.user_input = None, !.l.err = None, !.l.result = NoResult,
              !.l.llm_calls = 0, !.l.allowed_tool_rounds = 0, !.l.nev_task = None,
              !.l.nev_step = 0, !.l.nev_round = 0, !.l.pending = 0,
              !.l.final_message = ""]

\* The handler reporting the failure without the exception's text.
ExecuteTaskExceptNoText(m, msg) ==
    At(Emit(LeaveRole(m), Event("task.fail", "manager", m.ctx.task_id, m.ctx.step, 0,
                                "Task failed")), "exc_emit")

\* executor.py:207-213  except Exception as e: emit TASK_FAIL(details = str(e))
ExecuteTaskExcept(m, msg) ==
    At(Emit(LeaveRole(m), Event("task.fail", "manager", m.ctx.task_id, m.ctx.step, 0, msg)),
       "exc_emit")

\* planner.py:51-60  step += 1, tool_round = 0, emit STEP_START.  The event's
\* data is built with details = user_input; EventData declares details: str
\* (event/base.py:49), so an input of None raises a validation error here,
\* before the planner's try block.
PlannerEnter(m, user_input) ==
    LET c == [m.ctx EXCEPT !.step = @ + 1, !.tool_round = 0]
        m1 == [m EXCEPT !.ctx = c, !.l.user_input = user_input,
                        !.l.result = NoResult, !.l.llm_calls = 0]
    IN IF user_input = None
       THEN ExecuteTaskExcept(m1, ValidationMsg)
       ELSE At(Emit(m1, Event("step.start", "planner", c.task_id, c.step, 0, user_input)),
               "p_start")

\* executor.py:18-24  StepState (input, output, error, terminated); of a
\* planner's result the output is written as its next_step, the one field the
\* loop reads from it (executor.py:199)
StepState(input, output, error, terminated) ==
    [input |-> input, output |-> output, error |-> error, terminated |-> terminated]

\* The loop head testing the error budget before the step budget.
LoopTopErrorsFirst(m) ==
    LET m1 == [m EXCEPT !.l.ev_task = m.ctx.task_id, !.l.ev_step = m.ctx.step] IN
    IF ErrorBudgetExhausted(m.ctx)
    THEN At(Emit(m1, Event("task.fail", "manager", m1.l.ev_task, m1.l.ev_step, 0,
                           MaxErrorsMsg(m.ctx.error))), "term_emit")
    ELSE IF StepBudgetExhausted(m.ctx)
    THEN At(Emit(m1, Event("task.fail", "manager", m1.l.ev_task, m1.l.ev_step, 0,
                           MaxStepsMsg(m.ctx.step))), "term_emit")
    ELSE PlannerEnter(m1, m1.l.next_step)

\* executor.py:171-188  loop head: budget checks, then the planner call
LoopTop(m) ==
    LET m1 == [m EXCEPT !.l.ev_task = m.ctx.task_id, !.l.ev_step = m.ctx.step] IN
    IF StepBudgetExhausted(m.ctx)
    THEN At(Emit(m1, Event("task.fail", "manager", m1.l.ev_task, m1.l.ev_step, 0,
                           MaxStepsMsg(m.ctx.step))), "term_emit")
    ELSE IF ErrorBudgetExhausted(m.ctx)
    THEN At(Emit(m1, Event("task.fail", "manager", m1.l.ev_task, m1.l.ev_step, 0,
                           MaxErrorsMsg(m.ctx.error))), "term_emit")
    ELSE PlannerEnter(m1, m1.l.next_step)

\* executor.py:194-196 and 203-206: the step's error text, if truthy, is the next
\* planner input.  After a planner error with an empty text the code falls
\* through to step_state.output.next_step with output None (AttributeError,
\* caught at executor.py:207); after a navigator error with an empty text the
\* next input is the (absent) output.
PlanReturnError(m, err) ==
    LET m1 == [LeaveRole(m) EXCEPT
                   !.l.returns = Append(@, <<"planner", "error">>),
                   !.l.step_states = Append(@, StepState(m.l.next_step, None, err, FALSE))] IN
    IF Truthy(err)
    THEN LoopTop([m1 EXCEPT !.l.next_step = err])
    ELSE ExecuteTaskExcept(m1, NoNextStepAttrMsg)

NavigateReturnError(m, err) ==
    LoopTop([LeaveRole(m) EXCEPT
                 !.l.next_step = IF Truthy(err) THEN err ELSE None,
                 !.l.returns = Append(@, <<"navigator", "error">>),
                 !.l.step_states = Append(@, StepState(m.l.next_step, None, err, FALSE))])

\* The task entered with the counters reset and the agents' histories kept.
ExecuteTaskEnterKeepHistory(m) ==
    LET c == [m.ctx EXCEPT !.step = 0, !.tool_round = 0, !.error = 0,
                           !.max_steps = m.l.max_steps]
        m1 == [m EXCEPT !.ctx = c]
    IN IF Truthy(m.l.tab_id)
       THEN At(m1, "set_page")
       ELSE At(Emit(m1, Event("task.start", "manager", c.task_id, c.step, 0,
                              m.l.task)), "task_start")

\* The task entered with both histories emptied in place: each role keeps the
\* list object it had.
ExecuteTaskEnterSameLists(m) ==
    LET c == [m.ctx EXCEPT !.step = 0, !.tool_round = 0, !.error = 0,
                           !.max_steps = m.l.max_steps]
        m1 == [m EXCEPT !.ctx = c, !.ph = <<>>, !.nh = <<>>]
    IN IF Truthy(m.l.tab_id)
       THEN At(m1, "set_page")
       ELSE At(Emit(m1, Event("task.start", "manager", c.task_id, c.step, 0,
                              m.l.task)), "task_start")

\* The task entered with the step budget the context was built with.
ExecuteTaskEnterBuiltBudget(m) ==
    LET c == [m.ctx EXCEPT !.step = 0, !.tool_round = 0, !.error = 0]
        m1 == [m EXCEPT !.ctx = c, !.ph = <<>>, !.nh = <<>>, !.obj = OwnLists]
    IN IF Truthy(m.l.tab_id)
       THEN At(m1, "set_page")
       ELSE At(Emit(m1, Event("task.start", "manager", c.task_id, c.step, 0,
                              m.l.task)), "task_start")

\* executor.py:146-167  reset the context and both agents, rebind the tab if a
\* tab id is given, emit TASK_START
ExecuteTaskEnter(m) ==
    LET c == [m.ctx EXCEPT !.step = 0, !.tool_round = 0, !.error = 0,
                           !.max_steps = m.l.max_steps]
        m1 == [m EXCEPT !.ctx = c, !.ph = <<>>, !.nh = <<>>, !.obj = OwnLists]
    IN IF Truthy(m.l.tab_id)
       THEN At(m1, "set_page")
       ELSE At(Emit(m1, Event("task.start", "manager", c.task_id, c.step, 0,
                              m.l.task)), "task_start")

\* The rejection naming the rejected call's own id instead of the bound one.
RunGateOwnId(m) ==
    IF TaskBound(m.cur)
    THEN [At(Emit(m, Event("task.fail", "manager", m.l.task_id, 0, 0,
                           RunningMsg(m.l.task_id))), "reject_emit")
          EXCEPT !.lk = m.me]
    ELSE ExecuteTaskEnter([m EXCEPT !.ctx.task_id = m.l.task_id,
                                    !.cur = m.l.task_id,
                                    !.l.accepted = TRUE])

\* The context's task id written before the gate is tested.
RunGateBindFirst(m) ==
    LET m1 == [m EXCEPT !.ctx.task_id = m.l.task_id] IN
    IF TaskBound(m.cur)
    THEN [At(Emit(m1, Event("task.fail", "manager", m.l.task_id, 0, 0,
                            RunningMsg(m.cur))), "reject_emit")
          EXCEPT !.lk = m.me]
    ELSE ExecuteTaskEnter([m1 EXCEPT !.cur = m.l.task_id, !.l.accepted = TRUE])

\* executor.py:122-140  the gate: reject while a task is bound, else bind
RunGate(m) ==
    IF TaskBound(m.cur)
    THEN [At(Emit(m, Event("task.fail", "manager", m.l.task_id, 0, 0,
                           RunningMsg(m.cur))), "reject_emit")
          EXCEPT !.lk = m.me]
    ELSE ExecuteTaskEnter([m EXCEPT !.ctx.task_id = m.l.task_id,
                                    !.cur = m.l.task_id,
                                    !.l.accepted = TRUE])

\* ----------------------------------------------------------------- Planner
\* The planner's handler reporting the failure without counting it.
PlannerExceptUncounted(m, msg) ==
    LET m1 == [m EXCEPT !.l.err = msg]
    IN At(Emit(m1, Event("step.fail", "planner", m.ctx.task_id, m.ctx.step, 0, msg)),
          "p_fail_emit")

\* planner.py:133-149  except Exception: error += 1, emit STEP_FAIL, return error
PlannerExcept(m, msg) ==
    LET c == [m.ctx EXCEPT !.error = @ + 1]
        m1 == [m EXCEPT !.ctx = c, !.l.err = msg]
    IN At(Emit(m1, Event("step.fail", "planner", c.task_id, c.step, 0, msg)),
          "p_fail_emit")

\* What the decision service can answer to one planner step (planner.py:74-84):
\* the structured call is made until a reply parses, at most PlannerRetries
\* times; any of the calls may raise.
PlannerResults ==
    {[terminated |-> TRUE, next_step |-> None, final_response |-> FinalResponse,
      plan |-> PlanText]}
    \cup {[terminated |-> FALSE, next_step |-> None, final_response |-> None, plan |-> pl] :
              pl \in {None, PlanText}}
    \cup {[terminated |-> FALSE, next_step |-> s, final_response |-> None, plan |-> PlanText] :
              s \in SubTasks}

PlannerReplies ==
    {[kind |-> "parsed", calls |-> n, result |-> r, text |-> None] :
         n \in 1..PlannerRetries, r \in PlannerResults}
    \cup {[kind |-> "unparsed", calls |-> PlannerRetries, result |-> NoResult, text |-> None]}
    \cup {[kind |-> "raise", calls |-> n, result |-> NoResult, text |-> t] :
              n \in 1..PlannerRetries, t \in ErrorTexts}

\* planner.py:93-132  the parsed result: history, STEP_OK or STEP_FAIL
PlannerResult(m, r) ==
    LET text == IF r.terminated THEN r.final_response ELSE r.next_step
        m1 == [m EXCEPT !.ph = Append(@, Message("ai", text, None)), !.l.result = r] IN
    IF r.terminated
    THEN At(Emit(m1, Event("step.ok", "planner", m1.ctx.task_id, m1.ctx.step, 0,
                           r.final_response)), "p_ok_emit")
    ELSE IF r.next_step = None
    THEN LET c == [m1.ctx EXCEPT !.error = @ + 1] IN
         At(Emit([m1 EXCEPT !.ctx = c, !.l.err = NoNextStepMsg],
                 [Event("step.fail", "planner", c.task_id, c.step, 0, NoNextStepMsg)
                      EXCEPT !.plan = r.plan]),
            "p_nonext_emit")
    ELSE At(Emit(m1, [Event("step.ok", "planner", m1.ctx.task_id, m1.ctx.step, 0,
                            r.next_step) EXCEPT !.plan = r.plan]), "p_ok_emit")

\* The planner deciding without reading the cancel flag once it is assigned.
PlannerDecideUncancelled(m, stop, reply) ==
    LET m1 == [m EXCEPT !.ph = Append(@, HumanMessage(m.l.user_input))] IN
    IF stop = "absent" THEN PlannerExcept(m1, AttrErrorMsg)
    ELSE LET m2 == [m1 EXCEPT !.l.llm_calls = reply.calls] IN
         CASE reply.kind = "raise" -> PlannerExcept(m2, reply.text)
           [] reply.kind = "unparsed" -> PlannerExcept(m2, NoneResultMsg)
           [] OTHER -> PlannerResult(m2, reply.result)

\* planner.py:69-94  user message, then the retry loop, whose condition reads
\* context.stop_task_now: AgentContext (context.py:15-44) declares no such
\* field, so unless it has been assigned the read raises AttributeError inside
\* the try.  The decision-service call is synchronous (no suspension).
PlannerDecide(m, stop, reply) ==
    LET m1 == [m EXCEPT !.ph = Append(@, HumanMessage(m.l.user_input))] IN
    IF stop = "absent" THEN PlannerExcept(m1, AttrErrorMsg)
    ELSE IF stop = "true" THEN PlanReturnError(m1, CancelledMsg)
    ELSE LET m2 == [m1 EXCEPT !.l.llm_calls = reply.calls] IN
         CASE reply.kind = "raise" -> PlannerExcept(m2, reply.text)
           [] reply.kind = "unparsed" -> PlannerExcept(m2, NoneResultMsg)
           [] OTHER -> PlannerResult(m2, reply.result)

\* ---------------------------------------------------------------- Navigator
\* The navigator entered without counting a step.
NavigatorEnterUncounted(m, user_input) ==
    LET c == [m.ctx EXCEPT !.tool_round = 0]
        m1 == [m EXCEPT !.ctx = c, !.nh = <<SystemMessage("navigator")>>,
                        !.obj.navigator = "navigator",
                        !.l.user_input = user_input]
    IN At(Emit(m1, Event("step.start", "navigator", c.task_id, c.step, 0, user_input)),
          "n_start")

\* navigator.py:50-63  step += 1, tool_round = 0, history = [system], emit STEP_START
NavigatorEnter(m, user_input) ==
    LET c == [m.ctx EXCEPT !.step = @ + 1, !.tool_round = 0]
        m1 == [m EXCEPT !.ctx = c, !.nh = <<SystemMessage("navigator")>>,
                        !.obj.navigator = "navigator",
                        !.l.user_input = user_input]
    IN At(Emit(m1, Event("step.start", "navigator", c.task_id, c.step, 0, user_input)),
          "n_start")

\* The navigator's handler reporting the failure without counting it.
NavigatorExceptUncounted(m, msg) ==
    LET m1 == [m EXCEPT !.l.err = msg] IN
    At(Emit(m1, Event("step.fail", "navigator", m.l.nev_task, m.l.nev_step,
                      m.l.nev_round, msg)), "n_fail_emit")

\* navigator.py:171-183  except Exception: error += 1, emit STEP_FAIL(event_data)
NavigatorExcept(m, msg) ==
    LET m1 == [m EXCEPT !.ctx.error = @ + 1, !.l.err = msg] IN
    At(Emit(m1, Event("step.fail", "navigator", m.l.nev_task, m.l.nev_step,
                      m.l.nev_round, msg)), "n_fail_emit")

\* navigator.py:140-169  after the loop: cancelled, out of rounds, or success
NavigatorAfterLoop(m, stop) ==
    IF stop = "absent" THEN NavigatorExcept(m, AttrErrorMsg)
    ELSE IF stop = "true" THEN NavigateReturnError(m, CancelledMsg)
    ELSE IF m.l.allowed_tool_rounds = 0
    THEN LET m1 == [m EXCEPT !.ctx.error = @ + 1, !.l.err = TooManyRoundsMsg] IN
         At(Emit(m1, Event("step.fail", "navigator", m.l.nev_task, m.l.nev_step,
                           m.l.nev_round, TooManyRoundsMsg)), "n_toomany_emit")
    ELSE At(Emit(m, Event("step.ok", "navigator", m.l.nev_task, m.l.nev_step,
                          m.l.nev_round, m.l.final_message)), "n_ok_emit")

\* The loop test admitting a round with no round left.
NavigatorLoopTestInclusive(m, stop) ==
    IF m.l.allowed_tool_rounds >= 0
    THEN IF stop = "absent" THEN NavigatorExcept(m, AttrErrorMsg)
         ELSE IF stop = "true" THEN NavigatorAfterLoop(m, stop)
         ELSE At(m, "n_llm")
    ELSE NavigatorAfterLoop(m, stop)

\* navigator.py:86  while allowed_tool_rounds > 0 and not self.context.stop_task_now
NavigatorLoopTest(m, stop) ==
    IF m.l.allowed_tool_rounds > 0
    THEN IF stop = "absent" THEN NavigatorExcept(m, AttrErrorMsg)
         ELSE IF stop = "true" THEN NavigatorAfterLoop(m, stop)
         ELSE At(m, "n_llm")
    ELSE NavigatorAfterLoop(m, stop)

\* The batch run to its end without reading the flag before each call.
NavigatorToolLoopUnchecked(m, stop) ==
    IF m.l.pending > 0
    THEN IF stop = "absent" THEN NavigatorExcept(m, AttrErrorMsg)
         ELSE At(Emit(m, Event("act.start", "navigator", m.ctx.task_id, m.ctx.step,
                               m.ctx.tool_round, "tool")), "n_tool")
    ELSE At(m, "n_round_page")

\* navigator.py:96-109 and 119-120  the next tool call of the batch (the flag is
\* checked before each), or the page info read that ends the round
NavigatorToolLoop(m, stop) ==
    IF m.l.pending > 0
    THEN IF stop = "absent" THEN NavigatorExcept(m, AttrErrorMsg)
         ELSE IF stop = "true" THEN At(m, "n_round_page")
         ELSE At(Emit(m, Event("act.start", "navigator", m.ctx.task_id, m.ctx.step,
                               m.ctx.tool_round, "tool")), "n_tool")
    ELSE At(m, "n_round_page")

\* navigator.py:89-93 and 132-136  the decision service's reply: n > 0 tool
\* calls open a round; none means the reply is the final message
NavigatorReply(m, stop, n) ==
    LET text == IF n > 0 THEN "tool calls" ELSE NavigatorOutput
        m1 == [m EXCEPT !.nh = Append(@, Message("ai", text, None))] IN
    IF n > 0
    THEN NavigatorToolLoop([m1 EXCEPT !.ctx.tool_round = @ + 1,
                                      !.l.nev_round = m.ctx.tool_round + 1,
                                      !.l.pending = n], stop)
    ELSE NavigatorAfterLoop([m1 EXCEPT !.l.final_message = NavigatorOutput], stop)

\* ------------------------------------------------------------------ actions
View(p) ==
    [me |-> p, cur |-> current_task_id, lk |-> lock, ctx |-> ctx,
     ph |-> planner_history, nh |-> navigator_history, obj |-> messages_of, ev |-> events,
     files |-> chat_files, pc |-> pc[p], l |-> loc[p]]

Commit(p, m) ==
    /\ current_task_id' = m.cur
    /\ lock' = m.lk
    /\ ctx' = m.ctx
    /\ planner_history' = IF Aliased(m.obj) /\ m.ph = planner_history THEN m.nh ELSE m.ph
    /\ navigator_history' = IF Aliased(m.obj) /\ m.ph # planner_history THEN m.ph ELSE m.nh
    /\ messages_of' = m.obj
    /\ events' = m.ev
    /\ chat_files' = m.files
    /\ pc' = [pc EXCEPT ![p] = m.pc]
    /\ loc' = [loc EXCEPT ![p] = m.l]
    /\ UNCHANGED not_engine

\* The awaited operation returns (ok) or raises (a subscriber of the event
\* raising out of EventManager.emit, a page or decision-service error).
\* The transcript writes that follow a terminal emit are not awaited: how many
\* of the two succeed is the file system's matter (written, a set of counts
\* the environment allows) and no part of the fault budget.
Returns(p, m) == Commit(p, m) /\ UNCHANGED faults
Raises(p, m) == faults < MaxFaults /\ faults' = faults + 1 /\ Commit(p, m)

UsedIds == {loc[q].task_id : q \in Callers} \cup {id \in TaskIds : events[id] # <<>>}

\* executor.py:110-140  run(task, task_id, max_steps, tab_id), entered when the
\* lock is free (a caller finding it held waits for it without side effects).
\* Each caller issues one call; task ids are unique.
Run(p, ids, steps, tabs) ==
    /\ initialized
    /\ pc[p] = "idle"
    /\ loc[p].outcome = "none"
    /\ lock = 0
    /\ \E id \in ids \ UsedIds, n \in steps, tab \in tabs :
          Commit(p, RunGate([View(p) EXCEPT
              !.l = [InitLocals EXCEPT !.task = "find weather in Paris", !.task_id = id,
                                       !.max_steps = n, !.tab_id = tab]]))
    /\ UNCHANGED <<stop_task_now, faults>>

\* executor.py:127-132  the rejected call's emit returns or raises; either way
\* the lock is released and run() raises to its caller
RejectEmitted(p) ==
    /\ pc[p] = "reject_emit"
    /\ Commit(p, [View(p) EXCEPT !.lk = 0, !.pc = "idle", !.l.outcome = "raised"])
    /\ UNCHANGED <<stop_task_now, faults>>

\* executor.py:159-167  set_current_page(tab_id) returned or raised; tab_id
\* is not read again
SetPageDone(p) ==
    /\ pc[p] = "set_page"
    /\ LET m == [View(p) EXCEPT !.l.tab_id = None] IN
       \/ Returns(p, At(Emit(m, Event("task.start", "manager", m.ctx.task_id,
                                      m.ctx.step, 0, m.l.task)), "task_start"))
       \/ Raises(p, ExecuteTaskExcept(m, "page error"))
    /\ UNCHANGED stop_task_now

\* executor.py:163-171  TASK_START delivered: next_step = task, enter the loop
TaskStartEmitted(p) ==
    /\ pc[p] = "task_start"
    /\ LET m == View(p) IN
       \/ Returns(p, LoopTop([m EXCEPT !.l.next_step = m.l.task]))
       \/ Raises(p, ExecuteTaskExcept(m, "subscriber error"))
    /\ UNCHANGED stop_task_now

\* executor.py:179-180, 184-185, 192-193  the loop's TASK_FAIL / TASK_OK
\* delivered: break, then the finally clauses; or a transcript write raised;
\* or the delivery raised (into executor.py:207)
TerminalEmitted(p, written) ==
    /\ pc[p] = "term_emit"
    /\ LET m == View(p) IN
       \/ \E writes \in written : Returns(p, ExecuteTaskFinally(m, writes))
       \/ Raises(p, ExecuteTaskExcept(m, "subscriber error"))
    /\ UNCHANGED stop_task_now

\* executor.py:209-217  the handler's TASK_FAIL delivered, then the finally
\* clauses; or a transcript write raised; or the handler's emit raised (the
\* exception escapes run() once the finally clauses have run)
FailureEmitted(p, written) ==
    /\ pc[p] = "exc_emit"
    /\ LET m == View(p) IN
       \/ \E writes \in written : Returns(p, ExecuteTaskFinally(m, writes))
       \/ \E writes \in written :
             Raises(p, ExecuteTaskFinally([m EXCEPT !.l.exc = "subscriber error"], writes))
    /\ UNCHANGED stop_task_now

\* executor.py:143-144  the lock became free: clear the bound task
Released(p) ==
    /\ pc[p] = "release"
    /\ lock = 0
    /\ Commit(p, RunFinally(View(p)))
    /\ UNCHANGED <<stop_task_now, faults>>

\* STEP_START delivered, the system message added on every step.
PlannerStartEmittedAlways(p) ==
    /\ pc[p] = "p_start"
    /\ LET m == View(p) IN
       \/ Returns(p, At([m EXCEPT !.ph = Append(@, SystemMessage("planner"))], "p_page"))
       \/ Raises(p, ExecuteTaskExcept(m, "subscriber error"))
    /\ UNCHANGED stop_task_now

\* planner.py:56-68  STEP_START delivered: system message on an empty history,
\* then the page info read
PlannerStartEmitted(p) ==
    /\ pc[p] = "p_start"
    /\ LET m == View(p) IN
       \/ Returns(p, At([m EXCEPT !.ph = IF Len(@) = 0
                                          THEN <<SystemMessage("planner")>> ELSE @],
                        "p_page"))
       \/ Raises(p, ExecuteTaskExcept(m, "subscriber error"))
    /\ UNCHANGED stop_task_now

\* planner.py:68-132  page info read returned or raised; with the flag
\* readable and clear the decision service is asked
PlannerPageInfo(p, replies) ==
    /\ pc[p] = "p_page"
    /\ LET m == View(p) IN
       \/ /\ stop_task_now # "false"
          /\ Returns(p, PlannerDecide(m, stop_task_now,
                                      [kind |-> "none", calls |-> 0, result |-> NoResult,
                                       text |-> None]))
       \/ /\ stop_task_now = "false"
          /\ \E reply \in replies :
                IF reply.kind = "raise"
                THEN Raises(p, PlannerDecide(m, stop_task_now, reply))
                ELSE Returns(p, PlannerDecide(m, stop_task_now, reply))
       \/ Raises(p, PlannerExcept(m, "page error"))
    /\ UNCHANGED stop_task_now

\* executor.py:189-202 and 230-238  the planner returned a result: TASK_OK if
\* terminated, else the navigator is called with the proposed next step
PlanReturnResult(m, r) ==
    IF r.terminated
    THEN At(Emit([LeaveRole(m) EXCEPT
                      !.l.returns = Append(@, <<"planner", "terminated">>),
                      !.l.step_states = Append(@, StepState(m.l.next_step, r.final_response,
                                                            None, TRUE))],
                 Event("task.ok", "manager", m.l.ev_task, m.l.ev_step, 0,
                       r.final_response)), "term_emit")
    ELSE NavigatorEnter([LeaveRole(m) EXCEPT
                             !.l.next_step = r.next_step,
                             !.l.returns = Append(@, <<"planner", r.next_step>>),
                             !.l.step_states = Append(@, StepState(m.l.next_step, r.next_step,
                                                                   None, FALSE))],
                        r.next_step)

\* The navigator's result handed to the planner without the loop head's tests.
NavigateReturnResultUnchecked(m, out) ==
    PlannerEnter([LeaveRole(m) EXCEPT
                      !.l.next_step = out,
                      !.l.returns = Append(@, <<"navigator", "ok">>),
                      !.l.step_states = Append(@, StepState(m.l.next_step, out, None, FALSE)),
                      !.l.ev_task = m.ctx.task_id, !.l.ev_step = m.ctx.step],
                 out)

\* executor.py:203-206 and 245-248  the navigator returned its final response
NavigateReturnResult(m, out) ==
    LoopTop([LeaveRole(m) EXCEPT
                 !.l.next_step = out,
                 !.l.returns = Append(@, <<"navigator", "ok">>),
                 !.l.step_states = Append(@, StepState(m.l.next_step, out, None, FALSE))])

\* planner.py:126-132  STEP_OK delivered: the planner returns its result
PlannerOkEmitted(p) ==
    /\ pc[p] = "p_ok_emit"
    /\ LET m == View(p) IN
       \/ Returns(p, PlanReturnResult(m, m.l.result))
       \/ Raises(p, PlannerExcept(m, "subscriber error"))
    /\ UNCHANGED stop_task_now

\* planner.py:115-121  the no-next-step STEP_FAIL delivered
PlannerNoNextEmitted(p) ==
    /\ pc[p] = "p_nonext_emit"
    /\ LET m == View(p) IN
       \/ Returns(p, PlanReturnError(m, m.l.err))
       \/ Raises(p, PlannerExcept(m, "subscriber error"))
    /\ UNCHANGED stop_task_now

\* planner.py:137-149  the handler's STEP_FAIL delivered, or its emit raised
\* (out of the planner, into executor.py:207)
PlannerFailEmitted(p) ==
    /\ pc[p] = "p_fail_emit"
    /\ LET m == View(p) IN
       \/ Returns(p, PlanReturnError(m, m.l.err))
       \/ Raises(p, ExecuteTaskExcept(m, "subscriber error"))
    /\ UNCHANGED stop_task_now

\* navigator.py:58-66  STEP_START delivered (outside the try): page info read
NavigatorStartEmitted(p) ==
    /\ pc[p] = "n_start"
    /\ LET m == View(p) IN
       \/ Returns(p, At(m, "n_page"))
       \/ Raises(p, ExecuteTaskExcept(m, "subscriber error"))
    /\ UNCHANGED stop_task_now

\* The page info read, the user message built from the whole task's text.
NavigatorPageInfoTask(p) ==
    /\ pc[p] = "n_page"
    /\ LET m == View(p) IN
       \/ Returns(p, NavigatorLoopTest(
              [m EXCEPT !.nh = Append(@, HumanMessage(m.l.task)),
                        !.l.allowed_tool_rounds = m.ctx.max_tool_rounds,
                        !.l.nev_task = m.ctx.task_id, !.l.nev_step = m.ctx.step,
                        !.l.nev_round = 0, !.l.pending = 0, !.l.final_message = ""],
              stop_task_now))
       \/ Raises(p, ExecuteTaskExcept(m, "page error"))
    /\ UNCHANGED stop_task_now

\* navigator.py:66-86  page info read (outside the try): user message,
\* allowed_tool_rounds and event_data set, first loop test
NavigatorPageInfo(p) ==
    /\ pc[p] = "n_page"
    /\ LET m == View(p) IN
       \/ Returns(p, NavigatorLoopTest(
              [m EXCEPT !.nh = Append(@, HumanMessage(m.l.user_input)),
                        !.l.allowed_tool_rounds = m.ctx.max_tool_rounds,
                        !.l.nev_task = m.ctx.task_id, !.l.nev_step = m.ctx.step,
                        !.l.nev_round = 0, !.l.pending = 0, !.l.final_message = ""],
              stop_task_now))
       \/ Raises(p, ExecuteTaskExcept(m, "page error"))
    /\ UNCHANGED stop_task_now

\* navigator.py:88-136  the decision service replied with n tool calls (n = 0:
\* a final message) or raised
NavigatorReplied(p, batches) ==
    /\ pc[p] = "n_llm"
    /\ LET m == View(p) IN
       \/ \E n \in batches : Returns(p, NavigatorReply(m, stop_task_now, n))
       \/ \E t \in ErrorTexts : Raises(p, NavigatorExcept(m, t))
    /\ UNCHANGED stop_task_now

\* tools/open_url.py:29-97 (every tool alike): ACT_START delivered, the browser
\* action done, ACT_OK emitted; or the tool raised
ToolStarted(p) ==
    /\ pc[p] = "n_tool"
    /\ LET m == View(p) IN
       \/ Returns(p, At(Emit(m, Event("act.ok", "navigator", m.ctx.task_id, m.ctx.step,
                                      m.ctx.tool_round, "tool")), "n_tool_ok"))
       \/ Raises(p, NavigatorExcept(m, "tool error"))
    /\ UNCHANGED stop_task_now

\* navigator.py:109-117  the tool returned: tool message, next call of the batch
ToolReturned(p) ==
    /\ pc[p] = "n_tool_ok"
    /\ LET m == View(p) IN
       \/ Returns(p, NavigatorToolLoop([m EXCEPT !.nh = Append(@, Message("tool", "tool result", None)),
                                                 !.l.pending = @ - 1], stop_task_now))
       \/ Raises(p, NavigatorExcept(m, "subscriber error"))
    /\ UNCHANGED stop_task_now

\* navigator.py:120-138  page info after the round: synthetic user message,
\* allowed_tool_rounds -= 1, loop test
RoundPageInfo(p) ==
    /\ pc[p] = "n_round_page"
    /\ LET m == View(p) IN
       \/ Returns(p, NavigatorLoopTest([m EXCEPT !.nh = Append(@, HumanMessage(RoundPrompt)),
                                                 !.l.allowed_tool_rounds = @ - 1],
                                       stop_task_now))
       \/ Raises(p, NavigatorExcept(m, "page error"))
    /\ UNCHANGED stop_task_now

\* navigator.py:162-169  STEP_OK delivered: executor.py:203-206 feeds the output back
NavigatorOkEmitted(p) ==
    /\ pc[p] = "n_ok_emit"
    /\ LET m == View(p) IN
       \/ Returns(p, NavigateReturnResult(m, m.l.final_message))
       \/ Raises(p, NavigatorExcept(m, "subscriber error"))
    /\ UNCHANGED stop_task_now

\* navigator.py:152-158  the out-of-rounds STEP_FAIL delivered
NavigatorTooManyEmitted(p) ==
    /\ pc[p] = "n_toomany_emit"
    /\ LET m == View(p) IN
       \/ Returns(p, NavigateReturnError(m, m.l.err))
       \/ Raises(p, NavigatorExcept(m, "subscriber error"))
    /\ UNCHANGED stop_task_now

\* navigator.py:176-183  the handler's STEP_FAIL delivered, or its emit raised
NavigatorFailEmitted(p) ==
    /\ pc[p] = "n_fail_emit"
    /\ LET m == View(p) IN
       \/ Returns(p, NavigateReturnError(m, m.l.err))
       \/ Raises(p, ExecuteTaskExcept(m, "subscriber error"))
    /\ UNCHANGED stop_task_now

\* The cancel flag of the ExecutionContext.  AgentContext declares no such
\* field and no code under src/ assigns it (the server's cancel handler,
\* websocket/server.py:126-128, is not implemented): the assignment is the
\* embedding controller's.  It sets the flag at any moment of a task and clears
\* it only between tasks.
SetStopTaskNow(v) ==
    /\ stop_task_now # v
    /\ IF v = "true"
       THEN \E p \in Callers : pc[p] # "idle"
       ELSE \A p \in Callers : pc[p] = "idle"
    /\ stop_task_now' = v
    /\ UNCHANGED <<current_task_id, lock, ctx, planner_history, navigator_history,
                   messages_of, events, chat_files, pc, loc, faults, not_engine>>

\* --------------------------------------------------------- browser session
\* browser/manager.py:50-67  PlaywrightManager.__init__: nothing started, the
\* browser path as configured.  Browsers and page sessions are numbered in
\* the order they are made, 0 standing for None.
NewSession(path) ==
    [chrome_app_path |-> path,        \* None: launch an owned browser
     playwright |-> None,             \* None, "started" or "stopping failed"
     browser |-> 0,                   \* _browser
     browser_context |-> 0,           \* _browser_context
     context_browser |-> 0,           \* the browser the page session belongs to
     current_page |-> FALSE,          \* the page session has a current page
     async_initialize_done |-> FALSE,
     init_lock |-> 0,                 \* __init_lock: 0 free, else the caller holding it
     waiters |-> <<>>,                \* the callers waiting for __init_lock, first come first
     chrome_launcher |-> FALSE,       \* _chrome_launcher is set
     made |-> 0]                      \* browsers and page sessions made so far

InitSession ==
    /\ initialized = FALSE
    /\ \E path \in {None, "chrome"} : session = NewSession(path)
    /\ spc = [c \in Callers |-> "idle"]
    /\ sop = [c \in Callers |-> <<>>]
    /\ session_log = <<>>

\* The session as Executor.initialize() leaves it with an owned browser
InitSessionAcquired ==
    /\ initialized = TRUE
    /\ session = [NewSession(None) EXCEPT !.playwright = "started", !.browser = 1,
                      !.browser_context = 2, !.context_browser = 1, !.current_page = TRUE,
                      !.async_initialize_done = TRUE, !.made = 2]
    /\ spc = [c \in Callers |-> "idle"]
    /\ sop = [c \in Callers |-> <<>>]
    /\ session_log = <<>>

\* The view one caller's session code works on: m.s the manager's fields,
\* m.xl the Executor's lock, m.init its _initialized, m.pc and m.op the
\* caller's position and call stack, m.log the log.
SView(c) ==
    [me |-> c, s |-> session, xl |-> lock, init |-> initialized, pc |-> spc[c],
     op |-> sop[c], log |-> session_log]

SCommit(c, m) ==
    /\ session' = m.s
    /\ lock' = m.xl
    /\ initialized' = m.init
    /\ spc' = [spc EXCEPT ![c] = m.pc]
    /\ sop' = [sop EXCEPT ![c] = m.op]
    /\ session_log' = m.log
    /\ UNCHANGED not_session

SLog(m, what) == [m EXCEPT !.log = Append(@, <<m.me, what>>)]
SAt(m, label) == [m EXCEPT !.pc = label]
Top(op) == op[Len(op)]
Pop(op) == SubSeq(op, 1, Len(op) - 1)

\* manager.py:123 / caller: reinitialize() is over
ReinitializeExit(m, how) ==
    SAt([SLog(m, "reinitialize " \o how) EXCEPT !.op = Pop(@)], "idle")

\* executor.py:85-102  Executor.initialize after async_initialize: the context
\* and the agents are built and _initialized set; an exception leaves through
\* the async with, which releases the Executor's lock
InitializeExit(m, how) ==
    LET m1 == [m EXCEPT !.xl = 0, !.op = Pop(@),
                        !.init = IF how = "returned" THEN TRUE ELSE @]
    IN SAt(SLog(m1, "initialize " \o how), "idle")

\* An acquisition flagged done however it ends.
AcquireExitFlagged(m, how) ==
    LET m1 == SLog([m EXCEPT !.s.init_lock = 0, !.s.async_initialize_done = TRUE,
                             !.op = Pop(@)], "acquire " \o how)
    IN IF m1.op = <<>> THEN SAt(m1, "idle")
       ELSE IF Top(m1.op) = "reinitialize" THEN ReinitializeExit(m1, how)
       ELSE InitializeExit(m1, how)

\* manager.py:89-104  async_initialize leaves its async with (the lock is
\* released) and returns or raises to whoever called it
AcquireExit(m, how) ==
    LET m1 == SLog([m EXCEPT !.s.init_lock = 0, !.op = Pop(@)], "acquire " \o how)
    IN IF m1.op = <<>> THEN SAt(m1, "idle")
       ELSE IF Top(m1.op) = "reinitialize" THEN ReinitializeExit(m1, how)
       ELSE InitializeExit(m1, how)

\* manager.py:100-104  an owned browser is sent to the home page, then the
\* session is flagged acquired
AfterContext(m) ==
    IF m.s.chrome_app_path = None /\ m.s.browser_context # 0
    THEN SAt(m, "home_page")
    ELSE AcquireExit([m EXCEPT !.s.async_initialize_done = TRUE], "returned")

\* manager.py:224-229  a BrowserContext is made around the browser's context
MakeContext(m) ==
    SLog([m EXCEPT !.s.made = @ + 1, !.s.browser_context = m.s.made + 1,
                   !.s.context_browser = m.s.browser, !.s.current_page = FALSE],
         "page session")

\* manager.py:98, 204-243  get_browser_context(): an existing page session is
\* kept; else one is made, around the browser's first context if it has one
\* (has_context) or around a new context
ContextEnter(m, has_context) ==
    IF m.s.browser_context # 0 THEN AfterContext(m)
    ELSE IF has_context THEN AfterContext(MakeContext(m))
    ELSE SAt(m, "new_context")

\* A connect that attaches whatever the probe after the spawn says.
SpawnedProbeIgnored(m, probe) ==
    LET m1 == [m EXCEPT !.s.chrome_launcher = TRUE]
    IN SAt(SLog(m1, IF probe THEN "probe ok" ELSE "probe failed"), "attach")

\* manager.py:174-181, 143  the external browser is spawned and the port probed
\* again: a failed probe raises, else the attach is awaited
SpawnedProbe(m, probe) ==
    LET m1 == [m EXCEPT !.s.chrome_launcher = TRUE]
    IN IF probe THEN SAt(SLog(m1, "probe ok"), "attach")
       ELSE AcquireExit(SLog(m1, "probe failed"), "raised")

\* manager.py:125-143  _connect_to_browser up to its first await: launch
\* without a configured path; else probe, and attach or spawn
ConnectEnter(m, probe) ==
    IF m.s.chrome_app_path = None THEN SAt(m, "launch")
    ELSE IF probe THEN SAt(SLog(m, "probe ok"), "attach")
    ELSE SAt(SLog(SLog(m, "probe failed"), "spawn"), "spawn")

\* An acquire that does not look at the flag.
AcquireEnterUnchecked(m, probe) ==
    LET m1 == [m EXCEPT !.s.init_lock = m.me]
    IN IF m1.s.playwright = None THEN SAt(m1, "pw_start")
       ELSE ConnectEnter(m1, probe)

\* manager.py:89-97  async_initialize once it holds the lock
AcquireEnter(m, probe) ==
    LET m1 == [m EXCEPT !.s.init_lock = m.me]
    IN IF m1.s.async_initialize_done THEN AcquireExit(m1, "returned")
       ELSE IF m1.s.playwright = None THEN SAt(m1, "pw_start")
       ELSE ConnectEnter(m1, probe)

\* manager.py:84-89  async_initialize() is called: it takes the lock if it is
\* free and nobody waits for it, else it waits in line
AcquireCall(m, probe) ==
    LET m1 == SLog([m EXCEPT !.op = Append(@, "acquire")], "acquire called")
    IN IF m1.s.init_lock = 0 /\ m1.s.waiters = <<>>
       THEN AcquireEnter(m1, probe)
       ELSE SAt([m1 EXCEPT !.s.waiters = Append(@, m.me)], "init_lock")

\* A reinitialize that keeps the page session.
TeardownKeepContext(m, probe) ==
    LET m1 == [m EXCEPT !.s.async_initialize_done = FALSE, !.s.browser = 0,
                        !.s.init_lock = 0]
    IN AcquireCall(SLog(m1, "teardown"), probe)

\* manager.py:116-123  the flag, the browser and the page session are dropped,
\* the lock is released and async_initialize() called
Teardown(m, probe) ==
    LET m1 == [m EXCEPT !.s.async_initialize_done = FALSE, !.s.browser = 0,
                        !.s.browser_context = 0, !.s.context_browser = 0,
                        !.s.current_page = FALSE, !.s.init_lock = 0]
    IN AcquireCall(SLog(m1, "teardown"), probe)

\* manager.py:110-115  reinitialize once it holds the lock
ReinitializeEnter(m, probe) ==
    LET m1 == [m EXCEPT !.s.init_lock = m.me]
    IN IF m1.s.playwright # None THEN SAt(m1, "pw_stop")
       ELSE Teardown(m1, probe)

\* The calls callers made so far of the session's and the engine's start-up
\* interface: the async_initialize an Executor.initialize() or a reinitialize()
\* goes on to make is part of that call
SessionCalls ==
    Len(SelectSeq(session_log,
                  LAMBDA x : x[2] \in {"acquire called", "reinitialize called",
                                        "initialize skipped", "close", "run refused"}))
    - Len(SelectSeq(session_log, LAMBDA x : x[2] = "teardown"))

\* The awaited operation returns or raises
SReturns(c, m) == SCommit(c, m) /\ UNCHANGED faults
SRaises(c, m) == faults < MaxFaults /\ faults' = faults + 1 /\ SCommit(c, m)

\* manager.py:84  a caller calls async_initialize()
AsyncInitialize(c) ==
    /\ spc[c] = "idle"
    /\ SessionCalls < MaxSessionCalls
    /\ \E probe \in BOOLEAN : SReturns(c, AcquireCall(SView(c), probe))

\* manager.py:106-110  a caller calls reinitialize()
Reinitialize(c) ==
    /\ spc[c] = "idle"
    /\ SessionCalls < MaxSessionCalls
    /\ LET m == SLog([SView(c) EXCEPT !.op = <<"reinitialize">>], "reinitialize called") IN
       \E probe \in BOOLEAN :
          SReturns(c, IF m.s.init_lock = 0 /\ m.s.waiters = <<>>
                      THEN ReinitializeEnter(m, probe)
                      ELSE SAt([m EXCEPT !.s.waiters = Append(@, c)], "init_lock"))

\* executor.py:77-84  a caller calls Executor.initialize(), entered when the
\* Executor's lock is free
ExecutorInitialize(c) ==
    /\ spc[c] = "idle"
    /\ SessionCalls < MaxSessionCalls
    /\ lock = 0
    /\ LET m == SView(c) IN
       IF initialized
       THEN SReturns(c, SLog(m, "initialize skipped"))
       ELSE \E probe \in BOOLEAN :
               SReturns(c, AcquireCall(SLog([m EXCEPT !.xl = c, !.op = <<"initialize">>],
                                            "initialize called"), probe))

\* The first caller in line gets the released lock
LockGranted(c) ==
    /\ spc[c] = "init_lock"
    /\ session.init_lock = 0
    /\ session.waiters # <<>> /\ Head(session.waiters) = c
    /\ LET m == [SView(c) EXCEPT !.s.waiters = Tail(@)] IN
       \E probe \in BOOLEAN :
          SReturns(c, IF Top(m.op) = "acquire" THEN AcquireEnter(m, probe)
                      ELSE ReinitializeEnter(m, probe))

\* manager.py:94-97  async_playwright().start() returned or raised
PlaywrightStarted(c) ==
    /\ spc[c] = "pw_start"
    /\ LET m == SView(c) IN
       \/ \E probe \in BOOLEAN :
             SReturns(c, ConnectEnter([m EXCEPT !.s.playwright = "started"], probe))
       \/ SRaises(c, AcquireExit(m, "raised"))

\* manager.py:135-136, 194-201  chromium.launch returned or raised
Launched(c) ==
    /\ spc[c] = "launch"
    /\ LET m == SView(c) IN
       \/ SReturns(c, ContextEnter(SLog([m EXCEPT !.s.made = @ + 1, !.s.browser = m.s.made + 1],
                                        "launch"), FALSE))
       \/ SRaises(c, AcquireExit(m, "raised"))

\* manager.py:140, 173-181  ChromeLauncher.alaunch returned or raised
Spawned(c) ==
    /\ spc[c] = "spawn"
    /\ LET m == SView(c) IN
       \/ \E probe \in BOOLEAN : SReturns(c, SpawnedProbe(m, probe))
       \/ SRaises(c, AcquireExit([m EXCEPT !.s.chrome_launcher = TRUE], "raised"))

\* manager.py:143-148  connect_over_cdp returned or raised.  A browser attached
\* over the debugging protocol exposes its default context as contexts[0]
\* (manager.py:213-215); a launched one has no context yet.
Attached(c) ==
    /\ spc[c] = "attach"
    /\ LET m == SView(c) IN
       \/ SReturns(c, ContextEnter(SLog([m EXCEPT !.s.made = @ + 1, !.s.browser = m.s.made + 1],
                                        "attach"), TRUE))
       \/ SRaises(c, AcquireExit(m, "raised"))

\* manager.py:217-229  browser.new_context returned or raised
ContextCreated(c) ==
    /\ spc[c] = "new_context"
    /\ LET m == SView(c) IN
       \/ SReturns(c, AfterContext(MakeContext(m)))
       \/ SRaises(c, AcquireExit(m, "raised"))

\* manager.py:102-104  set_current_page(None) returned or raised
HomePageSet(c) ==
    /\ spc[c] = "home_page"
    /\ LET m == SView(c) IN
       \/ SReturns(c, AcquireExit(SLog([m EXCEPT !.s.current_page = TRUE,
                                                 !.s.async_initialize_done = TRUE],
                                        "home page"), "returned"))
       \/ SRaises(c, AcquireExit(m, "raised"))

\* manager.py:112-123  playwright.stop() returned, or raised (logged, the
\* stale object kept)
PlaywrightStopped(c) ==
    /\ spc[c] = "pw_stop"
    /\ LET m == SView(c) IN
       \/ \E probe \in BOOLEAN :
             SReturns(c, Teardown([m EXCEPT !.s.playwright = None], probe))
       \/ \E probe \in BOOLEAN :
             SRaises(c, Teardown([m EXCEPT !.s.playwright = "stopping failed"], probe))

\* manager.py:246-275  close(), as the repository calls it (cli/main.py:39, 61,
\* 78 through Executor.close): when no other call is in flight.  Whether its
\* steps raise or not, the finally clause drops every reference.
Close ==
    /\ \A c \in Callers : spc[c] = "idle"
    /\ SessionCalls < MaxSessionCalls
    /\ session' = [session EXCEPT !.playwright = None, !.browser = 0,
                       !.browser_context = 0, !.context_browser = 0,
                       !.current_page = FALSE, !.chrome_launcher = FALSE,
                       !.async_initialize_done = FALSE]
    /\ session_log' = Append(session_log, <<0, "close">>)
    /\ UNCHANGED <<not_session, lock, faults, initialized, spc, sop>>

\* executor.py:119-120  run() on an engine that is not initialized raises
RunRefused(c) ==
    /\ spc[c] = "idle"
    /\ SessionCalls < MaxSessionCalls
    /\ ~initialized
    /\ session_log' = Append(session_log, <<c, "run refused">>)
    /\ UNCHANGED <<not_session, lock, faults, initialized, session, spc, sop>>

\* ------------------------------------------------------------ page session
\* The external tab identifiers callers pass, and the ones the controller has
\* tagged pages with
TabIds == {"tab1", "tab2"}
TaggedIds == {"tab1"}

\* A page of the browser context: closed or not, at an internal URL
\* (chrome-extension://, chrome://, edge://) or not, the data-nano-tab-id of
\* its body, whether it is at the home page, and whether the navigation
\* handler was added (_navigation_handler_added), and how many times
\* page.on("domcontentloaded", ...) registered it
Page(internal, tag) ==
    [closed |-> FALSE, internal |-> internal, tag |-> tag, home |-> FALSE, handlers |-> FALSE,
     hooks |-> 0]

NoCall == [pc |-> "idle", arg |-> None, rest |-> <<>>, page |-> 0]

\* context.py:24-30  BrowserContext.__init__: no current page; the context
\* holds no page yet
InitPages ==
    /\ pages = <<>>
    /\ current_page = 0
    /\ scp = NoCall
    /\ page_log = <<>>

\* The view set_current_page works on: m.pages, m.cur the current page, m.c
\* the call, m.log the calls
PView == [pages |-> pages, cur |-> current_page, c |-> scp, log |-> page_log]

PCommit(m) ==
    /\ pages' = m.pages
    /\ current_page' = m.cur
    /\ scp' = m.c
    /\ page_log' = m.log
    /\ UNCHANGED not_pages

\* set_current_page returns or raises: the call is over
PageExit(m, how) ==
    [m EXCEPT !.c = NoCall, !.log[Len(m.log)].result = how]

\* _setup_handlers registering the handler whatever the page's mark says.
SetupHandlersUnmarked(m, k) ==
    [m EXCEPT !.pages[k].handlers = TRUE,
              !.pages[k].hooks = @ + 1,
              !.c.page = k, !.c.pc = "expose"]

\* context.py:71-92  _setup_handlers up to its await: the navigation handler
\* is added unless the page is marked as having it
SetupHandlers(m, k) ==
    [m EXCEPT !.pages[k].handlers = TRUE,
              !.pages[k].hooks = IF m.pages[k].handlers THEN @ ELSE @ + 1,
              !.c.page = k, !.c.pc = "expose"]

\* context.py:46-51  a current page is returned as it is; without one a new
\* page is asked for
Fallback(m) ==
    IF m.cur # 0 THEN PageExit(m, "returned")
    ELSE [m EXCEPT !.c.pc = "new_page"]

\* context.py:35-44  the loop over the pages: closed and internal pages are
\* skipped, the next other page is asked for its tag; when the pages are
\* exhausted the current page is cleared
RECURSIVE Search(_)
Search(m) ==
    IF m.c.rest = <<>> THEN Fallback([m EXCEPT !.cur = 0])
    ELSE LET k == Head(m.c.rest)
             m1 == [m EXCEPT !.c.rest = Tail(@)]
         IN IF m.pages[k].closed \/ m.pages[k].internal THEN Search(m1)
            ELSE [m1 EXCEPT !.c.page = k, !.c.pc = "evaluate"]

\* context.py:32-34  set_current_page(nano_tab_id) is called, by op: "set" for
\* a caller of set_current_page, "get" for get_current_page (context.py:62)
Entered(m, op, tab) ==
    LET m1 == [m EXCEPT !.c = [pc |-> "entered", arg |-> tab,
                               rest |-> [k \in 1..Len(m.pages) |-> k], page |-> 0],
                        !.log = Append(@, [op |-> op, arg |-> tab, pages |-> m.pages,
                                           cur |-> m.cur, result |-> "pending"])]
    IN IF tab # None THEN Search(m1) ELSE Fallback(m1)

\* context.py:60-63  get_current_page: the current page if there is one (the
\* call is over, logged with result "current"), else set_current_page(None)
GetCurrentPageEntered(m) ==
    IF m.cur # 0
    THEN [m EXCEPT !.log = Append(@, [op |-> "get", arg |-> None, pages |-> m.pages,
                                      cur |-> m.cur, result |-> "current"])]
    ELSE Entered(m, "get", None)

\* The tabs the browser has when the program starts to work with it, opened
\* by the user or by the controller, which tags the pages it wants worked on
OpenTab(internal, tag) ==
    /\ page_log = <<>>
    /\ Len(pages) < MaxPages
    /\ internal => tag = None
    /\ pages' = Append(pages, Page(internal, tag))
    /\ UNCHANGED <<not_pages, faults, current_page, scp, page_log>>

\* One of those tabs is being closed when the program starts to work with the
\* browser: it is still listed and reports is_closed()
ClosePage(k) ==
    /\ page_log = <<>>
    /\ ~pages[k].closed
    /\ pages' = [pages EXCEPT ![k].closed = TRUE]
    /\ UNCHANGED <<not_pages, faults, current_page, scp, page_log>>

\* context.py:32  set_current_page(tab), one call at a time: its callers run
\* under the Executor's lock (executor.py:160) or the session's
\* (manager.py:102)
SetCurrentPage(tab) ==
    /\ scp.pc = "idle"
    /\ Len(page_log) < MaxPageCalls
    /\ PCommit(Entered(PView, "set", tab))
    /\ UNCHANGED faults

\* context.py:60  get_current_page(), called by the page info reads and the
\* tools, one call at a time as well
GetCurrentPage ==
    /\ scp.pc = "idle"
    /\ Len(page_log) < MaxPageCalls
    /\ PCommit(GetCurrentPageEntered(PView))
    /\ UNCHANGED faults

\* context.py:37-42  page.evaluate returned the page's tag, or raised
Evaluated ==
    /\ scp.pc = "evaluate"
    /\ LET m == PView IN
       \/ /\ PCommit(IF m.pages[m.c.page].tag = m.c.arg
                     THEN SetupHandlers(m, m.c.page) ELSE Search(m))
          /\ UNCHANGED faults
       \/ /\ faults < MaxFaults
          /\ faults' = faults + 1
          /\ PCommit(PageExit(m, "raised"))

\* context.py:84-92, 41-42, 57-58  expose_function returned, or raised, which
\* is logged only: the page becomes the current page and is returned
Exposed ==
    /\ scp.pc = "expose"
    /\ PCommit(PageExit([PView EXCEPT !.cur = scp.page], "returned"))
    /\ UNCHANGED faults

\* context.py:51  context.new_page() returned or raised
NewPage ==
    /\ scp.pc = "new_page"
    /\ LET m == PView IN
       \/ /\ PCommit([m EXCEPT !.pages = Append(@, Page(FALSE, None)),
                               !.c.page = Len(m.pages) + 1, !.c.pc = "goto"])
          /\ UNCHANGED faults
       \/ /\ faults < MaxFaults
          /\ faults' = faults + 1
          /\ PCommit(PageExit(m, "raised"))

\* context.py:53  page.goto(home_page) returned or raised
Goto ==
    /\ scp.pc = "goto"
    /\ LET m == PView IN
       \/ /\ PCommit([m EXCEPT !.pages[m.c.page].home = TRUE, !.c.pc = "front"])
          /\ UNCHANGED faults
       \/ /\ faults < MaxFaults
          /\ faults' = faults + 1
          /\ PCommit(PageExit(m, "raised"))

\* context.py:54-56  page.bring_to_front() returned or raised
BroughtToFront ==
    /\ scp.pc = "front"
    /\ LET m == PView IN
       \/ /\ PCommit(SetupHandlers(m, m.c.page))
          /\ UNCHANGED faults
       \/ /\ faults < MaxFaults
          /\ faults' = faults + 1
          /\ PCommit(PageExit(m, "raised"))

\* ------------------------------------------------------------ task manager
\* Task ids and intents a create request may carry: empty, blank or not
RequestIds == {"", "t1", "t2"}
Intents == {" ", "find weather in Paris"}

\* str.strip() on the strings above
Strip(str) == IF str = " " THEN "" ELSE str

\* websocket/task.py:32-42  TaskManager._initialize: no current task; the tasks
\* directory holds no file of the ids used here
NoTask == [id |-> None, intent |-> None, steps |-> <<>>]
NoFile == [text |-> "absent", task |-> NoTask]

InitTaskManager ==
    /\ current_task = NoTask
    /\ saved = [id \in RequestIds |-> NoFile]
    /\ tm_log = <<>>

\* websocket/task.py:79  the terminal states
TerminalStates == {"task.ok", "task.fail", "task.cancel"}

\* The events handed to update_task_execution_state: the n-th event emitted,
\* its task id and state
TaskEvents(n) ==
    {[n |-> n, task_id |-> id, state |-> st] :
        id \in {"t1", "t2"}, st \in {"task.start", "step.ok"} \cup TerminalStates}

TmCall(op, arg, res) ==
    /\ Len(tm_log) < MaxTmCalls
    /\ tm_log' = Append(tm_log, [op |-> op, arg |-> arg, res |-> res])

\* websocket/task.py:84-92  _save_task: the file named after the id is opened
\* for writing and the record dumped into it; when that raises the file may
\* be untouched or left with a truncated text.
SaveOutcomes(files, task) ==
    {[ok |-> TRUE, files |-> [files EXCEPT ![task.id] = [text |-> "dumped", task |-> task]]],
     [ok |-> FALSE, files |-> files],
     [ok |-> FALSE, files |-> [files EXCEPT ![task.id] = [text |-> "truncated", task |-> NoTask]]]}

\* websocket/task.py:44-63  create_task(id, intent, args)
CreateTask(id, intent) ==
    /\ IF ~Truthy(id) \/ ~Truthy(Strip(id)) \/ ~Truthy(intent) \/ ~Truthy(Strip(intent))
       THEN TmCall("create", [id |-> id], "raised") /\ UNCHANGED current_task
       ELSE IF current_task # NoTask
       THEN TmCall("create", [id |-> id], "raised") /\ UNCHANGED current_task
       ELSE /\ TmCall("create", [id |-> id], "ok")
            /\ current_task' = [id |-> id, intent |-> Strip(intent), steps |-> <<>>]
    /\ UNCHANGED <<not_tm, faults, saved>>

\* websocket/task.py:65-68  close_task(), as called by the server when a task's
\* run() is over (websocket/server.py:106-107)
CloseTask ==
    /\ IF current_task = NoTask
       THEN TmCall("close", [id |-> None], "ok") /\ UNCHANGED <<current_task, saved, faults>>
       ELSE \E o \in SaveOutcomes(saved, current_task) :
               /\ saved' = o.files
               /\ IF o.ok
                  THEN /\ TmCall("close", [id |-> None], "ok")
                       /\ current_task' = NoTask
                       /\ UNCHANGED faults
                  ELSE /\ faults < MaxFaults
                       /\ faults' = faults + 1
                       /\ TmCall("close", [id |-> None], "raised")
                       /\ UNCHANGED current_task
    /\ UNCHANGED not_tm

\* An update that writes the record before appending the event to it.
UpdatedSaveFirst(task, files, event) ==
    IF event.state \in TerminalStates
    THEN {[ok |-> o.ok, files |-> o.files,
           task |-> IF o.ok THEN NoTask ELSE [task EXCEPT !.steps = Append(@, event)]] :
             o \in SaveOutcomes(files, task)}
    ELSE {[ok |-> TRUE, files |-> files, task |-> [task EXCEPT !.steps = Append(@, event)]]}

\* websocket/task.py:74-82  update_task_execution_state past its check: the
\* event is appended, and a terminal event closes the task
Updated(task, files, event) ==
    LET t1 == [task EXCEPT !.steps = Append(@, event)]
    IN IF event.state \in TerminalStates
       THEN {[ok |-> o.ok, files |-> o.files, task |-> IF o.ok THEN NoTask ELSE t1] :
                o \in SaveOutcomes(files, t1)}
       ELSE {[ok |-> TRUE, files |-> files, task |-> t1]}

\* websocket/task.py:70-82  update_task_execution_state(event)
UpdateTaskExecutionState(event) ==
    /\ IF current_task = NoTask \/ current_task.id # event.task_id
       THEN TmCall("update", event, "raised") /\ UNCHANGED <<current_task, saved, faults>>
       ELSE \E o \in Updated(current_task, saved, event) :
               /\ current_task' = o.task
               /\ saved' = o.files
               /\ IF o.ok
                  THEN TmCall("update", event, "ok") /\ UNCHANGED faults
                  ELSE /\ faults < MaxFaults
                       /\ faults' = faults + 1
                       /\ TmCall("update", event, "save raised")
    /\ UNCHANGED not_tm

\* --------------------------------------------------------------- event bus
\* event/base.py:6-12  EventType has the one member EXECUTION
Topics == {"execution"}

\* The callbacks handed to subscribe(): distinct objects, compared by identity
Callbacks == {"cb1", "cb2", "cb3"}

\* event/manager.py:6-7  EventManager(): no topic has a subscriber list yet
InitBus ==
    /\ subscribers = [t \in {} |-> <<>>]
    /\ emits = <<>>
    /\ bus_log = <<>>

Elems(s) == {s[i] : i \in 1..Len(s)}

BusCall(op) ==
    /\ Len(bus_log) < MaxBusCalls
    /\ bus_log' = Append(bus_log, op)

\* A subscribe that appends without looking for the callback.
SubscribedAppendAlways(subs, topic, callback) ==
    LET s1 == [t \in DOMAIN subs \cup {topic} |->
                  IF t \in DOMAIN subs THEN subs[t] ELSE <<>>]
    IN [s1 EXCEPT ![topic] = Append(@, callback)]

\* event/manager.py:9-13  subscribe(event_type, callback)
Subscribed(subs, topic, callback) ==
    LET s1 == [t \in DOMAIN subs \cup {topic} |->
                  IF t \in DOMAIN subs THEN subs[t] ELSE <<>>]
    IN IF \E i \in 1..Len(s1[topic]) : s1[topic][i] = callback
       THEN s1
       ELSE [s1 EXCEPT ![topic] = Append(@, callback)]

\* event/manager.py:15-20  unsubscribe(event_type, callback)
Unsubscribed(subs, topic, callback) ==
    IF topic \in DOMAIN subs
    THEN [subs EXCEPT ![topic] = SelectSeq(@, LAMBDA cb : cb # callback)]
    ELSE subs

Subscribe(topic, callback) ==
    /\ BusCall(<<"subscribe", topic, callback>>)
    /\ subscribers' = Subscribed(subscribers, topic, callback)
    /\ UNCHANGED <<not_bus, faults, emits>>

Unsubscribe(topic, callback) ==
    /\ BusCall(<<"unsubscribe", topic, callback>>)
    /\ subscribers' = Unsubscribed(subscribers, topic, callback)
    /\ UNCHANGED <<not_bus, faults, emits>>

\* event/manager.py:22-26  emit(event), up to its await: the topic's callbacks
\* are called in list order, each call making a coroutine that asyncio.gather
\* wraps in a task; without subscribers emit returns without suspending.
Gathered(subs, topic) ==
    IF topic \in DOMAIN subs THEN subs[topic] ELSE <<>>

EmitCall(topic) ==
    /\ Len(emits) < MaxEmits
    /\ \A i \in 1..Len(emits) : emits[i].out # "awaiting"
    /\ BusCall(<<"emit", topic>>)
    /\ LET g == Gathered(subscribers, topic) IN
       emits' = Append(emits,
                   [topic |-> topic, gathered |-> g,
                    st |-> [k \in 1..Len(g) |-> "created"],
                    out |-> IF g = <<>> THEN "returned" ELSE "awaiting"])
    /\ UNCHANGED <<not_bus, faults, subscribers>>

\* The event loop runs the task of the k-th callback of emit i up to its next
\* await, its return or its exception.  Tasks start in the order gather made
\* them (the loop's ready queue is first in, first out).
CallbackRun(i, k) ==
    /\ emits[i].st[k] \in {"created", "suspended"}
    /\ emits[i].st[k] = "created" => \A j \in 1..(k - 1) : emits[i].st[j] # "created"
    /\ \/ /\ emits' = [emits EXCEPT ![i].st[k] = "finished"]
          /\ UNCHANGED faults
       \/ /\ emits' = [emits EXCEPT ![i].st[k] = "suspended"]
          /\ UNCHANGED faults
       \/ /\ faults < MaxFaults
          /\ faults' = faults + 1
          /\ emits' = [emits EXCEPT ![i].st[k] = "raised"]
    /\ UNCHANGED <<not_bus, subscribers, bus_log>>

\* event/manager.py:24  the awaited gather completes: with the first exception
\* of a task as soon as one has raised, the other tasks left running, else
\* with the results once every task has returned.  Every task has had its
\* first run by then: their first runs are queued before any completion.
EmitResume(i) ==
    /\ emits[i].out = "awaiting"
    /\ \A k \in 1..Len(emits[i].gathered) : emits[i].st[k] # "created"
    /\ \/ /\ \E k \in 1..Len(emits[i].gathered) : emits[i].st[k] = "raised"
          /\ emits' = [emits EXCEPT ![i].out = "raised"]
       \/ /\ \A k \in 1..Len(emits[i].gathered) : emits[i].st[k] = "finished"
          /\ emits' = [emits EXCEPT ![i].out = "returned"]
    /\ UNCHANGED <<not_bus, faults, subscribers, bus_log>>

\* ----------------------------------------------------------- specification
\* executor.py:43  max_steps given at construction (default)
DefaultMaxSteps == 100

\* websocket/server.py:19
MAX_CONNECTIONS == 1

\* websocket/server.py:22-30  WebSocketServer.__init__: no connection, no task
\* created; per task id the number of its events whose handler call is over,
\* whether a handler call is suspended at its send, and whether the latest
\* handler call raised to the emitter; per caller of run() whether
\* _process_task has closed the task
InitServer ==
    server = [conns |-> 0, created |-> {},
              served |-> [id \in TaskIds |-> 0],
              sending |-> [id \in TaskIds |-> FALSE],
              raised |-> [id \in TaskIds |-> FALSE],
              closed |-> [p \in Callers |-> FALSE]]

InitBuilt(steps, errs, rounds) ==
    /\ current_task_id = None
    /\ lock = 0
    /\ \E n \in steps, e \in errs, r \in rounds :
          ctx = [task_id |-> None, step |-> 0, tool_round |-> 0, error |-> 0,
                 max_steps |-> n, max_errors |-> e, max_tool_rounds |-> r]
    /\ stop_task_now = "absent"
    /\ planner_history = <<>>
    /\ navigator_history = <<>>
    /\ messages_of = ClassList
    /\ chat_files = <<>>
    /\ events = [id \in TaskIds |-> <<>>]
    /\ pc = [p \in Callers |-> "idle"]
    /\ loc = [p \in Callers |-> InitLocals]
    /\ faults = 0
    /\ InitBus
    /\ InitTaskManager
    /\ InitSessionAcquired
    /\ InitPages
    /\ InitServer

\* The engine constructed with max_steps left at its default
InitWith(errs, rounds) == InitBuilt({DefaultMaxSteps}, errs, rounds)

\* One resumption of caller p's run(); env bounds what the decision services
\* may answer.
Step(p, env) ==
    \/ SetPageDone(p)
    \/ TaskStartEmitted(p)
    \/ TerminalEmitted(p, env.written)
    \/ FailureEmitted(p, env.written)
    \/ PlannerStartEmitted(p)
    \/ PlannerPageInfo(p, env.replies)
    \/ PlannerOkEmitted(p)
    \/ PlannerNoNextEmitted(p)
    \/ PlannerFailEmitted(p)
    \/ NavigatorStartEmitted(p)
    \/ NavigatorPageInfo(p)
    \/ NavigatorReplied(p, env.batches)
    \/ ToolStarted(p)
    \/ ToolReturned(p)
    \/ RoundPageInfo(p)
    \/ NavigatorOkEmitted(p)
    \/ NavigatorTooManyEmitted(p)
    \/ NavigatorFailEmitted(p)

\* Two callers of run(), each decision-service call answered at once; a
\* transcript write may fail.
GateEnv ==
    [replies |-> {r \in PlannerReplies : r.calls = 1 /\ r.result.next_step \in {None, "read temperature"}},
     batches |-> {0, 1}, written |-> 0..2]

Init == InitWith({1}, {1})

\* Two callers with non-empty task ids; the controller assigns the cancel flag.
Next ==
    \/ \E p \in Callers : Run(p, TaskIds \ {EmptyId}, {1}, {None, "tab"})
    \/ \E p \in Callers : RejectEmitted(p)
    \/ \E p \in Callers : Released(p)
    \/ \E p \in Callers : Step(p, GateEnv)
    \/ \E v \in {"false", "true"} : SetStopTaskNow(v)

Spec == Init /\ [][Next]_vars

\* Two callers, the engine constructed with one step budget or another and
\* each run() given one of its own.
InitBudget == InitBuilt({1, DefaultMaxSteps}, {1}, {1})

BudgetEnv == [GateEnv EXCEPT !.written = {2}]

NextBudget ==
    \/ Run(1, {"t1"}, 1..MaxStepsArg, {None, "tab"})
    \/ Run(2, {"t2"}, 1..MaxStepsArg, {None})
    \/ \E p \in Callers : RejectEmitted(p)
    \/ \E p \in Callers : Released(p)
    \/ \E p \in Callers : Step(p, BudgetEnv)
    \/ \E v \in {"false", "true"} : SetStopTaskNow(v)

SpecBudget == InitBudget /\ [][NextBudget]_vars

\* The code under src/ alone: nothing assigns the cancel flag, so every planner
\* step ends in the AttributeError handler and the navigator is never called.
\* Task ids are any strings, the empty one included.
NextShipped ==
    \/ \E p \in Callers : Run(p, TaskIds, {1}, {None, "tab"})
    \/ \E p \in Callers : RejectEmitted(p)
    \/ \E p \in Callers : Released(p)
    \/ \E p \in Callers : SetPageDone(p)
    \/ \E p \in Callers : TaskStartEmitted(p)
    \/ \E p \in Callers : PlannerStartEmitted(p)
    \/ \E p \in Callers : PlannerPageInfo(p, GateEnv.replies)
    \/ \E p \in Callers : PlannerFailEmitted(p)
    \/ \E p \in Callers : TerminalEmitted(p, {2})
    \/ \E p \in Callers : FailureEmitted(p, {2})

SpecShipped == Init /\ [][NextShipped]_vars

\* One task run alone, over every budget and every decision-service answer.
TaskEnv == [replies |-> PlannerReplies, batches |-> 0..MaxToolCalls, written |-> {2}]

InitTask == InitWith(1..MaxErrorsCfg, 1..MaxRoundsCfg)

NextTask ==
    \/ Run(1, {"t1"}, 0..MaxStepsArg, {None, "tab"})
    \/ Step(1, TaskEnv)
    \/ \E v \in {"false", "true"} : SetStopTaskNow(v)

SpecTask == InitTask /\ [][NextTask]_vars

\* One task with room for MaxSubTasks planner/navigator pairs and the planner's
\* final step.
ScenarioEnv ==
    [replies |-> {r \in PlannerReplies : r.kind = "parsed" /\ r.calls = 1},
     batches |-> {0, 1}, written |-> {2}]

InitScenario == InitWith({MaxErrorsCfg}, {1})

NextScenario ==
    \/ Run(1, {"t1"}, {2 * MaxSubTasks, 2 * MaxSubTasks + 1}, {None, "tab"})
    \/ Step(1, ScenarioEnv)
    \/ \E v \in {"false", "true"} : SetStopTaskNow(v)

SpecScenario == InitScenario /\ [][NextScenario]_vars

\* One task with a step budget of MaxStepsArg and the cancel flag set at any
\* moment of it.  The event loop resumes run() whenever the operation it awaits
\* has completed, and every awaited operation completes, by returning or by
\* raising: the task's steps are weakly fair.
NextCancel ==
    \/ Run(1, {"t1"}, {MaxStepsArg}, {None, "tab"})
    \/ Step(1, ScenarioEnv)
    \/ \E v \in {"false", "true"} : SetStopTaskNow(v)

SpecCancel == InitScenario /\ [][NextCancel]_vars /\ WF_vars(Step(1, ScenarioEnv))

\* The event bus alone: one emitter, callers of subscribe and unsubscribe, and
\* the callbacks' tasks.
NextBus ==
    \/ \E t \in Topics, cb \in Callbacks : Subscribe(t, cb)
    \/ \E t \in Topics, cb \in Callbacks : Unsubscribe(t, cb)
    \/ \E t \in Topics : EmitCall(t)
    \/ \E i \in 1..Len(emits) : \E k \in 1..Len(emits[i].gathered) : CallbackRun(i, k)
    \/ \E i \in 1..Len(emits) : EmitResume(i)

SpecBus == Init /\ [][NextBus]_vars

\* The task manager alone, driven by create requests, the engine's events and
\* the end of the task's run().
NextTaskManager ==
    \/ \E id \in RequestIds, intent \in Intents : CreateTask(id, intent)
    \/ \E e \in TaskEvents(Len(tm_log) + 1) : UpdateTaskExecutionState(e)
    \/ CloseTask

SpecTaskManager == Init /\ [][NextTaskManager]_vars

\* The browser session from construction on: callers of async_initialize,
\* reinitialize, Executor.initialize, close and run.
InitStartUp ==
    /\ current_task_id = None
    /\ lock = 0
    /\ ctx = [task_id |-> None, step |-> 0, tool_round |-> 0, error |-> 0,
              max_steps |-> DefaultMaxSteps, max_errors |-> 1, max_tool_rounds |-> 1]
    /\ stop_task_now = "absent"
    /\ planner_history = <<>>
    /\ navigator_history = <<>>
    /\ messages_of = ClassList
    /\ chat_files = <<>>
    /\ events = [id \in TaskIds |-> <<>>]
    /\ pc = [p \in Callers |-> "idle"]
    /\ loc = [p \in Callers |-> InitLocals]
    /\ faults = 0
    /\ InitBus
    /\ InitTaskManager
    /\ InitSession
    /\ InitPages
    /\ InitServer

NextSession ==
    \/ \E c \in Callers : AsyncInitialize(c)
    \/ \E c \in Callers : Reinitialize(c)
    \/ \E c \in Callers : ExecutorInitialize(c)
    \/ \E c \in Callers : LockGranted(c)
    \/ \E c \in Callers : PlaywrightStarted(c)
    \/ \E c \in Callers : Launched(c)
    \/ \E c \in Callers : Spawned(c)
    \/ \E c \in Callers : Attached(c)
    \/ \E c \in Callers : ContextCreated(c)
    \/ \E c \in Callers : HomePageSet(c)
    \/ \E c \in Callers : PlaywrightStopped(c)
    \/ \E c \in Callers : RunRefused(c)
    \/ Close

SpecSession == InitStartUp /\ [][NextSession]_vars

\* The page session on its own: tabs opened and closed from outside,
\* set_current_page called with no tab id, a tab id in use and one not in use
NextPages ==
    \/ \E internal \in BOOLEAN, tag \in {None} \cup TaggedIds : OpenTab(internal, tag)
    \/ \E k \in 1..Len(pages) : ClosePage(k)
    \/ \E tab \in {None} \cup TabIds : SetCurrentPage(tab)
    \/ GetCurrentPage
    \/ Evaluated
    \/ Exposed
    \/ NewPage
    \/ Goto
    \/ BroughtToFront

SpecPages == Init /\ [][NextPages]_vars

\* ------------------------------------------------------- websocket server
\* A run() started by _process_task is over and its finally clause has not
\* run yet.  After a run() that returned the clause follows without a
\* suspension; after one that raised, the error message is sent first
\* (server.py:98-107).
Unclosed(p) == pc[p] = "idle" /\ loc[p].outcome # "none" /\ ~server.closed[p]
ClosingNow == \E p \in Callers : Unclosed(p) /\ loc[p].outcome = "returned"

\* websocket/server.py:43-58  _register: a client connects (refused at
\* MAX_CONNECTIONS) or its connection ends
Register ==
    /\ ~ClosingNow
    /\ server.conns < MAX_CONNECTIONS
    /\ server' = [server EXCEPT !.conns = @ + 1]
    /\ UNCHANGED <<not_server, tm_vars, faults>>

Unregister ==
    /\ ~ClosingNow
    /\ server.conns > 0
    /\ server' = [server EXCEPT !.conns = @ - 1]
    /\ UNCHANGED <<not_server, tm_vars, faults>>

\* websocket/server.py:109-123 with task.py:44-63  a create message with a
\* fresh, non-empty id arrives over a connection and the TaskManager, having
\* no current task, accepts it; _process_task is scheduled.  (A refused
\* create changes nothing but the error message sent.)
HandleCreateTask(id, intent) ==
    /\ ~ClosingNow
    /\ server.conns > 0
    /\ id \notin server.created
    /\ Truthy(id) /\ Truthy(Strip(id)) /\ Truthy(intent) /\ Truthy(Strip(intent))
    /\ current_task = NoTask
    /\ current_task' = [id |-> id, intent |-> Strip(intent), steps |-> <<>>]
    /\ server' = [server EXCEPT !.created = @ \cup {id}]
    /\ UNCHANGED <<not_server, saved, tm_log, faults>>

\* websocket/server.py:95-102  _process_task calls run() for a created task
ProcessTaskRun(p) ==
    /\ ~ClosingNow
    /\ Run(p, server.created, {1}, {None})

\* websocket/server.py:106-107 with task.py:65-68  _process_task's finally:
\* close_task() saves and clears whatever task is current
ProcessTaskClose(p) ==
    /\ Unclosed(p)
    /\ server' = [server EXCEPT !.closed[p] = TRUE]
    /\ IF current_task = NoTask
       THEN UNCHANGED <<current_task, saved, faults>>
       ELSE \E o \in SaveOutcomes(saved, current_task) :
               /\ saved' = o.files
               /\ IF o.ok
                  THEN current_task' = NoTask /\ UNCHANGED faults
                  ELSE /\ faults < MaxFaults
                       /\ faults' = faults + 1
                       /\ UNCHANGED current_task
    /\ UNCHANGED <<not_server, tm_log>>

\* websocket/server.py:33-39  handle_state_event(event), started by the
\* gather of emit: for every active connection the event is recorded and
\* then sent; with no connection the loop body does not run.  An exception
\* of the recording is caught in the loop and the send is skipped.
HandleStateEvent(id) ==
    /\ ~ClosingNow
    /\ server.served[id] < Len(events[id])
    /\ ~server.sending[id]
    /\ LET e == events[id][server.served[id] + 1]
           over == [server EXCEPT !.served[id] = @ + 1, !.raised[id] = FALSE]
       IN IF server.conns = 0 \/ current_task = NoTask \/ current_task.id # e.task_id
          THEN server' = over /\ UNCHANGED <<current_task, saved, faults>>
          ELSE \E o \in Updated(current_task, saved, e) :
                  /\ current_task' = o.task
                  /\ saved' = o.files
                  /\ IF o.ok
                     THEN /\ server' = [server EXCEPT !.sending[id] = TRUE]
                          /\ UNCHANGED faults
                     ELSE /\ faults < MaxFaults
                          /\ faults' = faults + 1
                          /\ server' = over
    /\ UNCHANGED <<not_server, tm_log>>

\* websocket/server.py:36-39  the send returned or raised (caught): the loop
\* over the set of connections goes on, and raises RuntimeError to the
\* emitter when the set has changed its size meanwhile
StateSent(id) ==
    /\ ~ClosingNow
    /\ server.sending[id]
    /\ server' = [server EXCEPT !.sending[id] = FALSE, !.served[id] = @ + 1,
                                !.raised[id] = (server.conns = 0)]
    /\ UNCHANGED <<not_server, tm_vars, faults>>

\* event/manager.py:22-26  the emit a run() is suspended at returns when the
\* handler call for its event is over, and raises when that call raised
EmitPcs == {"task_start", "p_start", "p_fail_emit", "term_emit", "exc_emit"}
EmitRaised(p) ==
    pc[p] \in EmitPcs => ((faults' # faults) <=> server.raised[loc[p].task_id])

\* The engine as the server runs it: tasks come from create messages, every
\* event is handled by the server's subscriber, and nothing assigns the cancel
\* flag.
ServerStep(p) ==
    /\ pc[p] # "idle"
    /\ ~ClosingNow
    /\ server.served[loc[p].task_id] = Len(events[loc[p].task_id])
    /\ \/ RejectEmitted(p)
       \/ Released(p)
       \/ SetPageDone(p)
       \/ TaskStartEmitted(p)
       \/ PlannerStartEmitted(p)
       \/ PlannerPageInfo(p, GateEnv.replies)
       \/ PlannerFailEmitted(p)
       \/ TerminalEmitted(p, {2})
       \/ FailureEmitted(p, {2})
    /\ EmitRaised(p)

NextServer ==
    \/ Register
    \/ Unregister
    \/ \E id \in RequestIds, intent \in Intents : HandleCreateTask(id, intent)
    \/ \E p \in Callers : ProcessTaskRun(p)
    \/ \E p \in Callers : ProcessTaskClose(p)
    \/ \E id \in TaskIds : HandleStateEvent(id)
    \/ \E id \in TaskIds : StateSent(id)
    \/ \E p \in Callers : ServerStep(p)

SpecServer == Init /\ [][NextServer]_vars

\* ------------------------------------------------------------- observations
Called(p) == loc[p].task_id # None
Accepted(p) == loc[p].accepted
Rejected(p) == Called(p) /\ ~loc[p].accepted
Executing(p) == loc[p].accepted /\ loc[p].outcome = "none"
Ended(p) == loc[p].outcome # "none"

\* The events carrying the id caller p passed to run()
LogOf(p) == events[loc[p].task_id]

StateIs(s, st) == SelectSeq(s, LAMBDA e : e.state = st)
Terminals(s) == SelectSeq(s, LAMBDA e : e.state \in {"task.ok", "task.fail"})
StepStarts(s, actor) == SelectSeq(s, LAMBDA e : e.state = "step.start" /\ e.actor = actor)
StepsWith(s, st) == {s[i].step : i \in {j \in 1..Len(s) : s[j].state = st}}
Last(s) == s[Len(s)]
AiCount(h) == Len(SelectSeq(h, LAMBDA x : x.role = "ai"))

PlannerPcs == {"p_start", "p_page", "p_ok_emit", "p_nonext_emit", "p_fail_emit"}

NavigatorPcs ==
    {"n_start", "n_page", "n_llm", "n_tool", "n_tool_ok", "n_round_page",
     "n_ok_emit", "n_toomany_emit", "n_fail_emit"}

\* ------------------------------------------------------------------- claims
\* C1: at every moment at most one run() call is executing a task; a call
\* issued while another is executing is rejected.  Refuted under SpecShipped:
\* a task bound under the empty id does not close the gate.
C1_SingleFlight == Cardinality({p \in Callers : Executing(p)}) <= 1

\* C2: a rejected run() emits exactly one event carrying its id, a task.fail
\* whose details name the task bound at that moment (the other caller's), emits
\* no task.start, never enters the task, and raises to its caller.
C2_RejectedRun ==
    \A p \in Callers : Rejected(p) =>
        /\ pc[p] \in {"reject_emit", "idle"}
        /\ pc[p] = "idle" => loc[p].outcome = "raised"
        /\ pc[p] = "reject_emit" => TaskBound(current_task_id) /\ lock = p
        /\ \E q \in Callers \ {p} :
              /\ Accepted(q)
              /\ pc[p] = "reject_emit" => current_task_id = loc[q].task_id
              /\ LogOf(p) = <<Event("task.fail", "manager", loc[p].task_id, 0, 0,
                                    RunningMsg(loc[q].task_id))>>

C2_Witness ==
    \E p \in Callers : Rejected(p) /\ pc[p] = "idle" /\ loc[p].outcome = "raised"

\* C3: the steps of a rejected run() (its gate test and the delivery of its
\* task.fail) leave the bound task, the shared context, both histories, the
\* other caller's position and locals and the other task's events unchanged.
C3_RejectionFrame ==
    [][\A p \in Callers :
          (pc'[p] # pc[p] /\ (pc'[p] = "reject_emit" \/ pc[p] = "reject_emit")) =>
             /\ UNCHANGED <<current_task_id, ctx, planner_history, navigator_history>>
             /\ \A q \in Callers \ {p} :
                   /\ pc'[q] = pc[q]
                   /\ loc'[q] = loc[q]
                   /\ Called(q) => events'[loc[q].task_id] = events[loc[q].task_id]]_vars

\* a call was rejected, and the task it met went on to its task.ok and returned
C3_Witness ==
    \E p, q \in Callers :
        /\ Rejected(p) /\ loc[p].outcome = "raised"
        /\ Accepted(q) /\ loc[q].outcome = "returned"
        /\ Last(LogOf(q)).state = "task.ok"

\* C4: for every task id passed to run() exactly one terminal event is
\* emitted.  Refuted: when the delivery of the loop's task.ok / task.fail
\* raises, the handler emits a task.fail for the same id.
C4_OneTerminalEvent ==
    \A id \in TaskIds : Len(Terminals(events[id])) <= 1

\* C5: whenever no accepted run() is executing, no task is bound, and the lock
\* is held only by a rejecting call; the step that ends an accepted run(),
\* returning or raising, clears the bound task; a run() entered with no task
\* bound is accepted.
C5_GateReleased ==
    /\ []((\A p \in Callers : ~Executing(p)) => current_task_id = None)
    /\ [](lock # 0 => pc[lock] = "reject_emit")
    /\ [][\A p \in Callers :
             /\ (Executing(p) /\ loc'[p].outcome # "none") =>
                    current_task_id' = None /\ lock' = 0 /\ pc'[p] = "idle"
             /\ (pc[p] = "idle" /\ pc'[p] # "idle" /\ current_task_id = None) =>
                    loc'[p].accepted]_vars

\* an accepted run() left by an escaping exception, and the other caller's
\* run() accepted
C5_Witness ==
    \E p, q \in Callers :
        /\ p # q
        /\ Accepted(p) /\ loc[p].outcome = "raised"
        /\ Accepted(q)

\* ---------------------------------------------------- claims on one task
\* The single task of SpecTask and SpecScenario: caller 1, id "t1".
TaskLog == events["t1"]
PlannerCalls == Len(StepStarts(TaskLog, "planner"))
NavigatorCalls == Len(StepStarts(TaskLog, "navigator"))
ReturnKinds == {loc[1].returns[i][2] : i \in 1..Len(loc[1].returns)}

HappyReturns(r, k) ==
    /\ Len(r) = 2 * k + 1
    /\ \A i \in 1..(2 * k + 1) :
          IF i = 2 * k + 1 THEN r[i] = <<"planner", "terminated">>
          ELSE IF i % 2 = 1 THEN r[i][1] = "planner" /\ r[i][2] \in SubTasks
          ELSE r[i] = <<"navigator", "ok">>

\* The events of the engine and the roles (the tools' act.* events left out),
\* each as <<state, actor, step>>
EngineEvents == SelectSeq(TaskLog, LAMBDA e : e.state \notin {"act.start", "act.ok"})
Signature(s) == [i \in 1..Len(s) |-> <<s[i].state, s[i].actor, s[i].step>>]

\* task.start; k times (planner step.start, step.ok, navigator step.start,
\* step.ok); planner step.start, step.ok; task.ok.  The steps are numbered
\* 1..2k+1; task.ok carries the step read at the head of the loop, 2k.
HappyEvents(k) ==
    [i \in 1..(4 * k + 4) |->
        IF i = 1 THEN <<"task.start", "manager", 0>>
        ELSE IF i = 4 * k + 4 THEN <<"task.ok", "manager", 2 * k>>
        ELSE <<IF i % 2 = 0 THEN "step.start" ELSE "step.ok",
               IF (i \div 2) % 2 = 1 THEN "planner" ELSE "navigator",
               i \div 2>>]

\* C9: in such a run max_steps is at least 2k+1 and the engine and the roles
\* emit exactly the happy-path sequence, the navigator's step.start carrying
\* the sub-task the planner proposed and task.ok the planner's final response.
C9_HappyPath ==
    \A k \in 0..MaxSubTasks :
        (Ended(1) /\ faults = 0 /\ HappyReturns(loc[1].returns, k)) =>
            /\ loc[1].max_steps >= 2 * k + 1
            /\ Signature(EngineEvents) = HappyEvents(k)
            /\ \A i \in 1..k : EngineEvents[4 * i].details = loc[1].returns[2 * i - 1][2]
            /\ Last(TaskLog).details = FinalResponse

\* the longest scenario, with two different sub-tasks
C9_Witness ==
    /\ Ended(1) /\ faults = 0
    /\ HappyReturns(loc[1].returns, MaxSubTasks)
    /\ loc[1].returns[1] # loc[1].returns[3]

\* C10 as stated: a navigator step that ends, without any awaited operation
\* raising, while the cancel flag is set returns the "cancelled" error.
\* Refuted: a flag set after the step's last read of it leaves the result as
\* it was.
C10_SetMeansCancelled ==
    [][\A p \in Callers :
          (/\ stop_task_now = "true"
           /\ pc[p] \in NavigatorPcs /\ pc'[p] \notin NavigatorPcs
           /\ faults' = faults) =>
              loc'[p].next_step = CancelledMsg]_vars

\* C10 amended: with the flag set no step of a run() asks the decision service
\* for another round, starts another tool call or begins to report success;
\* and a navigator step that ends on a read of the set flag (after the page
\* info, the decision service's reply, a tool's return or the round's page
\* info) returns the "cancelled" error.
C10_Cancellation ==
    [][stop_task_now = "true" =>
          \A p \in Callers :
             /\ pc'[p] \in {"n_llm", "n_tool"} => pc[p] = pc'[p]
             /\ pc'[p] = "n_ok_emit" => pc[p] = "n_ok_emit"
             /\ (/\ pc[p] \in {"n_page", "n_llm", "n_tool_ok", "n_round_page"}
                 /\ pc'[p] \notin NavigatorPcs
                 /\ faults' = faults) =>
                    /\ loc'[p].next_step = CancelledMsg
                    /\ Last(loc'[p].returns) = <<"navigator", "error">>]_vars

\* a navigator step cancelled after a tool call: the step returned the
\* "cancelled" error, the tool's message is in the navigator's history
C10_Witness ==
    /\ stop_task_now = "true"
    /\ loc[1].next_step = CancelledMsg
    /\ Len(loc[1].returns) > 0 /\ Last(loc[1].returns) = <<"navigator", "error">>
    /\ \E i \in 1..Len(navigator_history) : navigator_history[i].role = "tool"
    /\ StateIs(TaskLog, "step.fail") = <<>>

\* Positions of the step-closing events of a log, and of the events that end a
\* step's span (the next step.start or the task's terminal event)
StepEnds(s) == {i \in 1..Len(s) : s[i].state \in {"step.ok", "step.fail"}}
SpanEnds(s) == {i \in 1..Len(s) : s[i].state \in {"step.start", "task.ok", "task.fail"}}

\* C14 as stated: within a task every step.start is followed by exactly one
\* step.ok or step.fail with the same step number before the next step.start
\* and before the terminal event, and every step.ok or step.fail closes a
\* step.start that nothing closed before.  Refuted: a step that returns the
\* "cancelled" error, or whose awaited operation raises outside the step's
\* try, emits no closing event; a step.ok whose delivery raises is followed by
\* a step.fail of the same step.
C14_StepProtocol ==
    LET s == TaskLog IN
    /\ \A i \in 1..Len(s) : s[i].state = "step.start" =>
          \A j \in SpanEnds(s) :
             (j > i /\ \A k \in SpanEnds(s) : ~(i < k /\ k < j)) =>
                /\ Cardinality({k \in StepEnds(s) : i < k /\ k < j}) = 1
                /\ \A k \in StepEnds(s) : (i < k /\ k < j) => s[k].step = s[i].step
    /\ \A k \in StepEnds(s) :
          \E i \in 1..(k - 1) :
             /\ s[i].state = "step.start"
             /\ \A n \in (i + 1)..(k - 1) : s[n].state \notin {"step.start", "step.ok", "step.fail"}

\* --------------------------------------------------------------- event bus
\* Task k of emit i is over: its callback returned or raised
Over(i, k) == emits[i].st[k] \in {"finished", "raised"}

\* C11 as stated: emit calls every callback subscribed to the event's topic
\* exactly once with the event, and does not return to the emitter, normally
\* or by raising, before every one of those callbacks has finished.  Refuted:
\* the emitter gets the first exception while other callbacks are suspended.
C11_EmitBarrier ==
    \A i \in 1..Len(emits) :
        /\ \A cb \in Callbacks :
              Cardinality({k \in 1..Len(emits[i].gathered) : emits[i].gathered[k] = cb}) <= 1
        /\ emits[i].out # "awaiting" =>
              \A k \in 1..Len(emits[i].gathered) : Over(i, k)

\* C12 as stated: when one of several subscribers raises, the exception
\* reaches the emitter (the emit never returns normally) and the other
\* subscribers' callbacks are not run to completion for that event.  Refuted:
\* the other callbacks are not cancelled; they finish before or after the
\* emitter has got the exception.
C12_FanOutAborted ==
    \A i \in 1..Len(emits) :
        (\E k \in 1..Len(emits[i].gathered) : emits[i].st[k] = "raised") =>
            /\ emits[i].out # "returned"
            /\ emits[i].out = "raised" =>
                  \A k \in 1..Len(emits[i].gathered) : emits[i].st[k] # "finished"

\* What the calls logged before position n leave of callback cb on a topic:
\* the position of its first subscribe after its last unsubscribe (0 if none)
LastUnsubscribe(t, cb, n) ==
    LET U == {m \in 1..(n - 1) : bus_log[m] = <<"unsubscribe", t, cb>>}
    IN IF U = {} THEN 0 ELSE CHOOSE m \in U : \A u \in U : u <= m
EffectiveSubscribe(t, cb, n) ==
    LET S == {m \in (LastUnsubscribe(t, cb, n) + 1)..(n - 1) : bus_log[m] = <<"subscribe", t, cb>>}
    IN IF S = {} THEN 0 ELSE CHOOSE m \in S : \A u \in S : m <= u

\* seq lists, once each and in the order of their subscription, exactly the
\* callbacks subscribed and not unsubscribed since by the calls before n
ListsSubscribed(seq, t, n) ==
    /\ \A i, k \in 1..Len(seq) : i < k =>
          /\ seq[i] # seq[k]
          /\ EffectiveSubscribe(t, seq[i], n) < EffectiveSubscribe(t, seq[k], n)
    /\ Elems(seq) = {cb \in Callbacks : EffectiveSubscribe(t, cb, n) > 0}

\* The position in the log of the i-th emit
EmitPosition(i) ==
    CHOOSE n \in 1..Len(bus_log) :
        /\ bus_log[n][1] = "emit"
        /\ Cardinality({m \in 1..n : bus_log[m][1] = "emit"}) = i

\* C13: subscription is idempotent by callback identity: after any sequence of
\* subscribe and unsubscribe calls a topic's list holds each callback at most
\* once, namely those subscribed and not unsubscribed since, in the order they
\* were subscribed (a repeated subscribe changes nothing, an unsubscribe leaves
\* the others in their order), and an emit calls exactly the callbacks listed
\* when it is made, so none that was unsubscribed before.
C13_IdempotentSubscription ==
    /\ \A t \in Topics : ListsSubscribed(Gathered(subscribers, t), t, Len(bus_log) + 1)
    /\ \A i \in 1..Len(emits) :
          ListsSubscribed(emits[i].gathered, emits[i].topic, EmitPosition(i))

\* some callback subscribed twice and then unsubscribed, another subscribed in
\* between: the emit that follows calls the other alone
C13_Witness ==
    \E a, b \in Callbacks :
        /\ a # b
        /\ Len(bus_log) >= 5
        /\ SubSeq(bus_log, Len(bus_log) - 4, Len(bus_log)) =
              << <<"subscribe", "execution", a>>, <<"subscribe", "execution", b>>,
                 <<"subscribe", "execution", a>>, <<"unsubscribe", "execution", a>>,
                 <<"emit", "execution">> >>
        /\ emits[Len(emits)].gathered = <<b>>
        /\ emits[Len(emits)].out = "returned"

\* ------------------------------------------------------------ task manager
\* The events the calls logged after the latest accepted create have appended
\* to the record, in the order of the calls
LastCreate ==
    LET C == {k \in 1..Len(tm_log) : tm_log[k].op = "create" /\ tm_log[k].res = "ok"}
    IN IF C = {} THEN 0 ELSE CHOOSE k \in C : \A c \in C : c <= k
Appended ==
    SelectSeq(SubSeq(tm_log, LastCreate + 1, Len(tm_log)),
              LAMBDA x : x.op = "update" /\ x.res # "raised")

CountOf(log, whats) == Len(SelectSeq(log, LAMBDA x : x[2] \in whats))

\* The log since the session's references were last dropped
Epoch ==
    LET R == {k \in 1..Len(session_log) : session_log[k][2] \in {"teardown", "close"}}
    IN IF R = {} THEN session_log
       ELSE SubSeq(session_log, (CHOOSE k \in R : \A r \in R : r <= k) + 1, Len(session_log))

\* The entries one step adds to the log
NewEntries == SubSeq(session_log', Len(session_log) + 1, Len(session_log'))

\* Caller c's async_initialize gets the lock in this step
EntersAcquire(c) ==
    /\ spc'[c] # "init_lock"
    /\ \/ spc[c] = "init_lock" /\ Top(sop[c]) = "acquire"
       \/ spc[c] # "init_lock" /\ <<c, "acquire called">> \in Elems(NewEntries)

Latest(c) ==
    LET mine == SelectSeq(session_log, LAMBDA x : x[1] = c)
        C == {k \in 1..Len(mine) : mine[k][2] = "acquire called"}
    IN IF C = {} THEN <<>>
       ELSE LET from == CHOOSE k \in C : \A j \in C : j <= k
            IN [k \in 1..(Len(mine) - from) |-> mine[from + k][2]]
Protocol(c) ==
    SelectSeq(Latest(c), LAMBDA w : w \in {"launch", "probe ok", "probe failed", "spawn", "attach"})

\* C17: the acquisition protocol.  Without a configured browser path an
\* acquisition launches an owned browser and neither probes, spawns nor
\* attaches.  With a path it probes first; after a successful probe it
\* attaches without spawning; after a failed one it spawns, probes once more
\* and attaches only after that probe succeeded: never more than two probes,
\* never a spawn after a successful probe.
C17_AcquisitionProtocol ==
    \A c \in Callers :
        LET done == \E k \in 1..Len(Latest(c)) : Latest(c)[k] = "acquire returned" IN
        IF session.chrome_app_path = None
        THEN /\ Protocol(c) \in {<<>>, <<"launch">>}
        ELSE /\ Protocol(c) \in
                  {<<>>, <<"probe ok">>, <<"probe ok", "attach">>,
                   <<"probe failed", "spawn">>,
                   <<"probe failed", "spawn", "probe failed">>,
                   <<"probe failed", "spawn", "probe ok">>,
                   <<"probe failed", "spawn", "probe ok", "attach">>}
             /\ done => Protocol(c) \in
                  {<<>>, <<"probe ok", "attach">>,
                   <<"probe failed", "spawn", "probe ok", "attach">>}

\* an acquisition that found the port closed, spawned the browser, found the
\* port open and attached
C17_Witness ==
    \E c \in Callers :
        /\ Protocol(c) = <<"probe failed", "spawn", "probe ok", "attach">>
        /\ \E k \in 1..Len(Latest(c)) : Latest(c)[k] = "acquire returned"
        /\ session.async_initialize_done
        /\ session.chrome_launcher

\* Caller c's acquisition fails in this step
AcquireRaises(c) == <<c, "acquire raised">> \in Elems(NewEntries)

\* C18: a failed acquisition.  When the probe after the spawn fails or the
\* attach fails, or any other step of the acquisition raises,
\* async_initialize raises to its caller with the session not flagged
\* acquired and its lock released; an Executor.initialize() that called it
\* raises too and leaves the engine uninitialized.  An async_initialize that
\* gets the lock of a session not flagged acquired starts the protocol over
\* instead of returning, and run() cannot be entered on an uninitialized engine.
C18_FailedAcquisition ==
    /\ [][\A c \in Callers :
            /\ (spc[c] = "spawn" /\ <<c, "probe failed">> \in Elems(NewEntries)) => AcquireRaises(c)
            /\ (spc[c] = "attach" /\ spc'[c] # "attach" /\ <<c, "attach">> \notin Elems(NewEntries)) =>
                  AcquireRaises(c)
            /\ AcquireRaises(c) =>
                  /\ ~session'.async_initialize_done
                  /\ session'.init_lock = 0
                  /\ spc'[c] = "idle"
                  /\ sop[c][1] = "initialize" =>
                        /\ <<c, "initialize raised">> \in Elems(NewEntries)
                        /\ ~initialized'
                        /\ lock' = 0
            /\ (EntersAcquire(c) /\ ~session.async_initialize_done) =>
                  /\ spc'[c] \in {"pw_start", "launch", "spawn", "attach"}
                  /\ <<c, "acquire returned">> \notin Elems(NewEntries)]_vars
    /\ [](~initialized =>
            ~ENABLED (\E p \in Callers : Run(p, TaskIds, 1..MaxStepsArg, {None})))

\* Executor.initialize() failed on the probe after the spawn, which leaves
\* the engine uninitialized, and a later async_initialize is running the
\* protocol again
C18_Witness ==
    \E i, k \in 1..Len(session_log) :
        /\ i > 3 /\ i < k /\ k < Len(session_log)
        /\ session_log[i - 3][2] = "spawn"
        /\ session_log[i - 2][2] = "probe failed"
        /\ session_log[i - 1][2] = "acquire raised"
        /\ session_log[i][2] = "initialize raised"
        /\ session_log[k][2] = "acquire called"
        /\ session_log[Len(session_log)][2] \in {"probe ok", "spawn"}
        /\ ~initialized
        /\ ~session.async_initialize_done

\* The steps logged after caller c's latest teardown, as of the end of a step
SinceTeardown(c) ==
    LET T == {k \in 1..Len(session_log') : session_log'[k] = <<c, "teardown">>}
    IN IF T = {} THEN <<>>
       ELSE SubSeq(session_log', (CHOOSE k \in T : \A j \in T : j <= k) + 1, Len(session_log'))

\* C19: reinitialize().  Whatever state the session is in, reinitialize drops
\* the browser and page-session references and the acquired flag and calls
\* async_initialize at once; when it returns without error the session is
\* flagged acquired and holds a browser and a page session that were made
\* after that teardown; and every teardown belongs to a reinitialize() call
\* some caller made.
C19_Reinitialize ==
    /\ [][\A c \in Callers :
            /\ <<c, "teardown">> \in Elems(NewEntries) =>
                  /\ session'.browser = 0
                  /\ session'.browser_context = 0
                  /\ ~session'.current_page
                  /\ ~session'.async_initialize_done
                  /\ sop'[c] = <<"reinitialize", "acquire">>
                  /\ \E k \in 1..(Len(NewEntries) - 1) :
                        /\ NewEntries[k] = <<c, "teardown">>
                        /\ NewEntries[k + 1] = <<c, "acquire called">>
            /\ <<c, "reinitialize returned">> \in Elems(NewEntries) =>
                  /\ session'.async_initialize_done
                  /\ session'.browser # 0
                  /\ session'.browser_context # 0
                  /\ CountOf(SinceTeardown(c), {"launch", "attach"}) >= 1
                  /\ CountOf(SinceTeardown(c), {"page session"}) >= 1]_vars
    /\ [](/\ CountOf(session_log, {"teardown"}) <= CountOf(session_log, {"reinitialize called"})
          /\ \A c \in Callers :
                (sop[c] # <<>> /\ sop[c][1] = "reinitialize") =>
                   \E k \in 1..Len(session_log) :
                      /\ session_log[k] = <<c, "reinitialize called">>
                      /\ \A j \in (k + 1)..Len(session_log) :
                            session_log[j] \notin {<<c, "reinitialize returned">>,
                                                   <<c, "reinitialize raised">>})

\* an acquired session, with its first page session, was reinitialized and
\* holds another browser and page session
C19_Witness ==
    \E c \in Callers, i, j \in 1..Len(session_log) :
        /\ i < j
        /\ session_log[i][2] = "page session"
        /\ session_log[j] = <<c, "reinitialize called">>
        /\ session_log[j - 1][2] = "acquire returned"
        /\ session_log[Len(session_log)] = <<c, "reinitialize returned">>
        /\ session.async_initialize_done
        /\ session.browser_context > 2

\* ------------------------------------------------------------ page session
\* The latest set_current_page() call, and the pages that were open, not
\* internal and tagged with its argument when it was made
LastCall == page_log[Len(page_log)]
Tagged(call) ==
    {k \in 1..Len(call.pages) :
        /\ ~call.pages[k].closed
        /\ ~call.pages[k].internal
        /\ call.pages[k].tag = call.arg}

\* C20: after set_current_page(tabId) returned, the current page is a page
\* that was open, not internal and tagged with tabId if there was one; if
\* there was none, or no tabId was given, it is a page opened by that call and
\* sent to the home URL.
C20_SetCurrentPage ==
    (page_log # <<>> /\ LastCall.result = "returned") =>
        IF LastCall.arg # None /\ Tagged(LastCall) # {}
        THEN current_page \in Tagged(LastCall)
        ELSE /\ current_page > Len(LastCall.pages)
             /\ pages[current_page].home

\* ------------------------------------------------------- the plan/act loop
\* The step.start event a step of the task appends to its log, the StepState
\* the loop got from the role call before it, and the role that returned it
StepStarted == Len(TaskLog') > Len(TaskLog) /\ Last(TaskLog').state = "step.start"
PreviousState == Last(loc'[1].step_states)
PreviousRole == Last(loc'[1].returns)[1]

\* A role call returns to the loop in this step with a result to feed back
\* (not a terminated one, not a next_step for the navigator) and the loop head
\* finds both budgets unspent
FedBack ==
    /\ Len(loc'[1].step_states) > Len(loc[1].step_states)
    /\ PreviousRole = "navigator" \/ PreviousState.error # None
    /\ ~StepBudgetExhausted(ctx) /\ ~ErrorBudgetExhausted(ctx)

\* The text the loop is to hand to the next planner step
Feedback ==
    IF loc'[1].step_states = <<>> THEN loc'[1].task
    ELSE IF PreviousState.error # None THEN PreviousState.error
    ELSE PreviousState.output

\* C21: the first planner input is the task text; every later planner input is
\* the result of the role call before it: the planner's error text if the
\* planner step errored, else the navigator's error text if the navigator step
\* errored, else the navigator's output; the navigator is called only with the
\* next_step of the successful, non-terminated planner step just before it.
\* Refuted: executor.py:194 and 203 test the error text for truth, so an error
\* with an empty text is not fed back: after such a navigator error the planner
\* is called with the absent output, None, and after such a planner error the
\* loop reads next_step of the absent output.
C21_FeedbackChaining ==
    [][/\ FedBack => (StepStarted /\ Last(TaskLog').actor = "planner")
       /\ StepStarted =>
             LET e == Last(TaskLog') IN
             IF e.actor = "planner"
             THEN /\ e.details = Feedback
                  /\ loc'[1].step_states # <<>> =>
                         (PreviousRole = "navigator" \/ PreviousState.error # None)
             ELSE /\ loc'[1].step_states # <<>>
                  /\ PreviousRole = "planner"
                  /\ PreviousState.error = None
                  /\ ~PreviousState.terminated
                  /\ PreviousState.output \in SubTasks
                  /\ e.details = PreviousState.output]_vars

\* The task.fail events the loop head emits for an exhausted budget
BudgetMsgs ==
    {MaxStepsMsg(n) : n \in 0..(MaxStepsArg + 1)} \cup {MaxErrorsMsg(n) : n \in 0..(MaxErrorsCfg + 1)}
BudgetFails ==
    SelectSeq(TaskLog, LAMBDA e : e.state = "task.fail" /\ e.details \in BudgetMsgs)

\* What one step of the task does at the head of the loop
LoopHeadChecked ==
    /\ (StepStarted /\ Last(TaskLog').actor = "planner") =>
           /\ ctx'.step - 1 < ctx'.max_steps
           /\ ctx'.error < ctx'.max_errors
    /\ Len(BudgetFails') > Len(BudgetFails) =>
           /\ pc'[1] = "term_emit"
           /\ StepBudgetExhausted(ctx') \/ ErrorBudgetExhausted(ctx')
           /\ Last(TaskLog').details =
                  IF StepBudgetExhausted(ctx') THEN MaxStepsMsg(ctx'.step)
                  ELSE MaxErrorsMsg(ctx'.error)
    /\ BudgetFails # <<>> => (~StepStarted /\ ctx' = ctx)

\* C22: the planner is called only from a loop head that found step < max_steps
\* and error < max_errors; a loop head that finds a budget exhausted emits one
\* task.fail, for the step budget if that is exhausted and else for the error
\* budget, and no role is called after it.
C22_BudgetChecksFirst ==
    /\ [][LoopHeadChecked]_vars
    /\ [](/\ Len(BudgetFails) <= 1
          /\ pc[1] \in PlannerPcs \cup NavigatorPcs => BudgetFails = <<>>
          /\ pc[1] \in PlannerPcs => ctx.step - 1 < ctx.max_steps)

\* both budgets were exhausted at once, and the failure reported is the step
\* budget's
C22_Witness ==
    /\ ctx.max_steps > 0
    /\ StepBudgetExhausted(ctx) /\ ErrorBudgetExhausted(ctx)
    /\ BudgetFails # <<>>
    /\ BudgetFails[1].details = MaxStepsMsg(ctx.step)
    /\ Ended(1)

\* ------------------------------------------------------ exceptions and exit
\* The task.fail events of caller p's task that the exception handler emitted,
\* and the transcript files written under its id
HandlerFails(p) ==
    SelectSeq(LogOf(p), LAMBDA e : e.state = "task.fail" /\ e.details \notin BudgetMsgs)
FilesOf(p) == SelectSeq(chat_files, LAMBDA f : f.task_id = loc[p].task_id)

\* The awaits of an accepted run() outside the roles' own try blocks
OutsideTry ==
    {"set_page", "task_start", "term_emit", "p_start", "p_fail_emit", "n_start", "n_page",
     "n_fail_emit"}

\* An exception reaching _execute_task's handler in this step, and its text
CaughtAtTop(p) == pc'[p] = "exc_emit" /\ pc[p] # "exc_emit"
ExceptionText(p) ==
    IF pc[p] \in {"set_page", "n_page"} THEN "page error"
    ELSE IF Len(loc'[p].step_states) > Len(loc[p].step_states)
    THEN IF Last(loc'[p].returns)[1] = "planner" THEN NoNextStepAttrMsg ELSE ValidationMsg
    ELSE "subscriber error"

TopLevelCatch(p) ==
    /\ (faults' > faults /\ pc[p] \in OutsideTry /\ pc'[p] # pc[p]) => CaughtAtTop(p)
    /\ CaughtAtTop(p) =>
           /\ loc[p].accepted /\ loc'[p].outcome = "none"
           /\ events'[loc[p].task_id] =
                  Append(LogOf(p), Event("task.fail", "manager", loc[p].task_id, ctx'.step, 0,
                                         ExceptionText(p)))

RolesOnFile(p) == [i \in 1..Len(FilesOf(p)) |-> FilesOf(p)[i].role]

\* Caller p's accepted run() has left _execute_task: it has ended or waits
\* for the lock to clear the bound task
Finished(p) == Accepted(p) /\ (Ended(p) \/ pc[p] = "release")

\* Every transcript file was written after a terminal event of its task, while
\* that task was still bound, and holds the role's history as the task left it
SavedInTime ==
    \A i \in 1..Len(chat_files) :
        LET f == chat_files[i] IN
        /\ f.after \in {"task.ok", "task.fail"}
        /\ f.bound = f.task_id
        /\ \E p \in Callers : Finished(p) /\ loc[p].task_id = f.task_id
        /\ ctx.task_id = f.task_id =>
               f.messages = IF f.role = "planner" THEN planner_history ELSE navigator_history

TaskStarted(id) ==
    Len(events'[id]) > Len(events[id]) /\ Last(events'[id]).state = "task.start"

\* C25: when task.start is emitted for an accepted task the context carries
\* that task's id, step, tool_round and error are 0 and both roles' histories
\* are empty, whatever the task before it left behind.
C25_ResetAtBind ==
    [][\A id \in TaskIds :
          TaskStarted(id) =>
             /\ ctx'.task_id = id
             /\ ctx'.step = 0 /\ ctx'.tool_round = 0 /\ ctx'.error = 0
             /\ planner_history' = <<>> /\ navigator_history' = <<>>
             /\ \E p \in Callers :
                   /\ loc'[p].accepted /\ loc'[p].task_id = id /\ pc'[p] = "task_start"
                   /\ ctx'.max_steps = loc'[p].max_steps
                   /\ Last(events'[id]) =
                          Event("task.start", "manager", id, 0, 0, loc'[p].task)]_vars

\* the second task's task.start has just been emitted with the state reset,
\* after a first task that counted steps and an error and left both histories
\* filled
C25_Witness ==
    \E p, q \in Callers :
        /\ Accepted(p) /\ Ended(p)
        /\ StateIs(LogOf(p), "step.fail") # <<>>
        /\ Len(FilesOf(p)) = 2
        /\ FilesOf(p)[1].messages # <<>> /\ FilesOf(p)[2].messages # <<>>
        /\ pc[q] = "task_start"
        /\ ctx.task_id = loc[q].task_id /\ ctx.step = 0 /\ ctx.error = 0
        /\ planner_history = <<>> /\ navigator_history = <<>>

\* ------------------------------------------------------ planner step errors
\* The step.ok and step.fail events of the task carrying step number n
ClosingEvents(n) ==
    SelectSeq(TaskLog, LAMBDA e : e.step = n /\ e.state \in {"step.ok", "step.fail"})

\* The loop goes on with text as the next planner input: a planner step.start
\* carrying it, or the budget task.fail of a loop head with a budget spent
ContinuesWith(text) ==
    /\ Len(TaskLog') = Len(TaskLog) + 1
    /\ IF StepBudgetExhausted(ctx) \/ ErrorBudgetExhausted(ctx)
       THEN Len(BudgetFails') = Len(BudgetFails) + 1
       ELSE Last(TaskLog') = Event("step.start", "planner", "t1", ctx.step + 1, 0, text)

\* The decision service answers this planner step with a parsed result that
\* is not terminated and has no next step; the step.fail of that answer is
\* delivered (or its delivery raises) and the planner step goes on
NoNextStepAnswered == pc[1] = "p_page" /\ pc'[1] = "p_nonext_emit"
NoNextStepDelivered == pc[1] = "p_nonext_emit" /\ pc'[1] # "p_nonext_emit"

\* What the two halves of a no-next-step planner step do
NoNextStepHandled ==
    /\ NoNextStepAnswered =>
          /\ ctx'.error = ctx.error + 1
          /\ Last(TaskLog') = [Event("step.fail", "planner", "t1", ctx.step, 0,
                                     NoNextStepMsg)
                                  EXCEPT !.plan = loc'[1].result.plan]
    /\ NoNextStepDelivered =>
          /\ ctx'.error = ctx.error
          /\ Last(loc'[1].returns) = <<"planner", "error">>
          /\ Last(loc'[1].step_states).error = NoNextStepMsg
          /\ ContinuesWith(NoNextStepMsg)

\* C26: a planner result that is not terminated and has no next step raises
\* the error counter by exactly one and is reported by one step.fail (with the
\* plan if there is one) and no step.ok; the planner returns the error, the
\* engine emits no task.fail for it and does not call the navigator, and the
\* loop goes on with the error text as the next planner input.  Refuted, for
\* the reason of C14: the step.fail is emitted inside the planner's try, so a
\* delivery that raises is handled as a second failure of the same step.
C26_NoNextStep ==
    /\ [][NoNextStepHandled]_vars
    /\ [](\A i \in 1..Len(TaskLog) :
             (TaskLog[i].state = "step.fail" /\ TaskLog[i].details = NoNextStepMsg) =>
                 Len(ClosingEvents(TaskLog[i].step)) = 1)

\* All PlannerRetries replies of this planner step came back unparsed: the
\* planner's handler takes over with the text of the attribute error raised
\* on the missing result, and later its step.fail has been delivered
UnparsedAnswered ==
    pc[1] = "p_page" /\ pc'[1] = "p_fail_emit" /\ loc'[1].err = NoneResultMsg
UnparsedReturned ==
    /\ pc[1] = "p_fail_emit" /\ loc[1].err = NoneResultMsg
    /\ pc'[1] # "p_fail_emit" /\ faults' = faults

UnparsedHandled ==
    /\ UnparsedAnswered =>
          /\ loc'[1].llm_calls = PlannerRetries
          /\ ctx'.error = ctx.error + 1
          /\ ctx'.step = ctx.step
          /\ TaskLog' = Append(TaskLog, Event("step.fail", "planner", "t1", ctx.step, 0,
                                             NoneResultMsg))
    /\ UnparsedReturned =>
          /\ ctx'.error = ctx.error
          /\ Last(loc'[1].returns) = <<"planner", "error">>
          /\ Last(loc'[1].step_states).error = NoneResultMsg
          /\ ContinuesWith(NoneResultMsg)

\* C27: a planner step whose decision-service replies are unparsed on every
\* attempt is reported by exactly one step.fail and counts exactly one error;
\* when the step returns, its failure text is the next planner input, and
\* the only task.fail that can follow it directly is that of a spent budget.
C27_UnparsedFedBack ==
    /\ [][UnparsedHandled]_vars
    /\ [](\A i \in 1..Len(TaskLog) :
             (TaskLog[i].state = "step.fail" /\ TaskLog[i].details = NoneResultMsg) =>
                 Len(ClosingEvents(TaskLog[i].step)) = 1)

\* The failure text of an unparsed step has started the next planner step
C27_Witness ==
    \E i \in 2..Len(TaskLog) :
        /\ TaskLog[i] = Event("step.start", "planner", "t1", TaskLog[i].step, 0, NoneResultMsg)
        /\ TaskLog[i - 1] = Event("step.fail", "planner", "t1", TaskLog[i].step - 1, 0,
                                  NoneResultMsg)
        /\ ctx.error = 1

\* ------------------------------------------------- the planner's local retry
\* A planner step passes the point of its decision-service calls: the page
\* info was read and the step has not been cancelled
DecisionDue ==
    /\ pc[1] = "p_page" /\ pc'[1] # "p_page"
    /\ stop_task_now # "true"
    /\ ~ (pc'[1] = "p_fail_emit" /\ loc'[1].err = "page error")

\* The first parsed reply ends the calls: an ai message is recorded exactly
\* when a reply parsed, and nothing but the step's one closing event, its user
\* message and that ai message shows how many calls were made
RetriesInvisible ==
    LET parsed == pc'[1] \in {"p_ok_emit", "p_nonext_emit"} IN
    /\ Len(TaskLog') = Len(TaskLog) + 1
    /\ Last(TaskLog').step = ctx.step
    /\ ctx'.step = ctx.step
    /\ ctx'.error = ctx.error + (IF Last(TaskLog').state = "step.fail" THEN 1 ELSE 0)
    /\ planner_history' =
          IF parsed
          THEN planner_history \o <<HumanMessage(loc[1].user_input), Last(planner_history')>>
          ELSE Append(planner_history, HumanMessage(loc[1].user_input))
    /\ parsed => Last(planner_history').role = "ai"

LocalRetry ==
    DecisionDue => /\ loc'[1].llm_calls \in 1..PlannerRetries
                   /\ RetriesInvisible

\* C28: within one planner step the decision service is invoked at least once
\* and at most PlannerRetries times, and the retries are invisible to the
\* caller.  Refuted: the loop condition reads a context attribute that the
\* context does not have, and the step fails before the first invocation.
C28_LocalRetry == [][LocalRetry]_vars

\* ------------------------------------------------- the planner's history
HumanCount(h) == Len(SelectSeq(h, LAMBDA x : x.role = "human"))
SystemCount(h) == Len(SelectSeq(h, LAMBDA x : x.role = "system"))

\* Caller p's planner step passes its page info read; the read raised
PageInfoPassed(p) == pc[p] = "p_page" /\ pc'[p] # "p_page"
PageInfoRaised(p) == pc'[p] = "p_fail_emit" /\ loc'[p].err = "page error"

\* This step binds the context to a newly accepted task
NextTaskBound == \E p \in Callers : ~ loc[p].accepted /\ loc'[p].accepted

\* One system message, in front, present as soon as a planner step has passed
\* its step.start
SystemMessageFirst ==
    /\ planner_history # <<>> =>
          planner_history[1] = SystemMessage("planner") /\ SystemCount(planner_history) = 1
    /\ \A p \in Callers : pc[p] \in PlannerPcs \ {"p_start"} => planner_history # <<>>

\* The history changes only by the first planner step of a task putting the
\* system message into the empty history, by a planner step appending behind
\* what is there, and by the next bind emptying it
HistoryGrows ==
    planner_history' # planner_history =>
        \/ /\ planner_history = <<>> /\ planner_history' = <<SystemMessage("planner")>>
           /\ \E p \in Callers :
                 /\ pc[p] = "p_start" /\ pc'[p] = "p_page"
                 /\ Len(StepStarts(LogOf(p), "planner")) = 1
        \/ /\ Len(planner_history') > Len(planner_history)
           /\ SubSeq(planner_history', 1, Len(planner_history)) = planner_history
           /\ \E p \in Callers : PageInfoPassed(p)
        \/ planner_history' = <<>> /\ NextTaskBound

\* A planner step appends exactly one user message
OneUserMessage(p) ==
    /\ HumanCount(planner_history') = HumanCount(planner_history) + 1
    /\ planner_history'[Len(planner_history) + 1] = HumanMessage(loc[p].user_input)

UserMessagePerStep ==
    /\ \A p \in Callers : PageInfoPassed(p) => OneUserMessage(p)
    /\ (\A p \in Callers : ~ PageInfoPassed(p)) =>
           HumanCount(planner_history') \in {HumanCount(planner_history), 0}

UserMessagePerPageInfo ==
    /\ \A p \in Callers :
          PageInfoPassed(p) => IF PageInfoRaised(p)
                               THEN planner_history' = planner_history
                               ELSE OneUserMessage(p)
    /\ (\A p \in Callers : ~ PageInfoPassed(p)) =>
           HumanCount(planner_history') \in {HumanCount(planner_history), 0}

FirstNavigatorCall ==
    pc[1] = "n_llm" /\ loc[1].allowed_tool_rounds = ctx.max_tool_rounds

\* C30: at the first decision-service call of every navigator step the
\* navigator history is the system message followed by the user message built
\* from the step's sub-task (the planner's latest next step, as announced by
\* the step's step.start) and the page info just read; nothing of an earlier
\* sub-task is in it.
C30_NavigatorStateless ==
    FirstNavigatorCall =>
        /\ navigator_history = <<SystemMessage("navigator"), HumanMessage(loc[1].user_input)>>
        /\ loc[1].user_input \in SubTasks
        /\ loc[1].user_input = Last(StepStarts(TaskLog, "navigator")).details
        /\ Last(loc[1].returns) = <<"planner", loc[1].user_input>>
        /\ Last(StepStarts(TaskLog, "navigator")).step = ctx.step

\* the second sub-task's first call, after a first sub-task that ran a tool
\* and left its messages in the history
C30_Witness ==
    /\ FirstNavigatorCall
    /\ Len(StepStarts(TaskLog, "navigator")) = 2
    /\ StepStarts(TaskLog, "navigator")[1].details # loc[1].user_input
    /\ \E i \in 1..Len(TaskLog) : TaskLog[i].state = "act.ok"
    /\ navigator_history = <<SystemMessage("navigator"), HumanMessage(loc[1].user_input)>>

\* ------------------------------------------------------- the current page
\* The calls of the page session that returned a page
ReturnedCalls == SelectSeq(page_log, LAMBDA c : c.result \in {"returned", "current"})

\* C31: after get_current_page or set_current_page returned normally a
\* current page is set; get_current_page opens a page only when it finds no
\* current page, and otherwise returns the current page and leaves the pages
\* and the current page as they are; no page has the navigation handler
\* registered more than once, however often it is made current.
C31_OneCurrentPage ==
    /\ \A k \in 1..Len(pages) : pages[k].hooks <= 1 /\ (pages[k].hooks = 1) = pages[k].handlers
    /\ current_page \in 0..Len(pages)
    /\ current_page # 0 => pages[current_page].hooks = 1
    /\ page_log # <<>> =>
          /\ LastCall.result \in {"returned", "current"} => current_page # 0
          /\ LastCall.op = "get" =>
                IF LastCall.cur # 0
                THEN /\ LastCall.result = "current"
                     /\ current_page = LastCall.cur
                     /\ pages = LastCall.pages
                ELSE /\ LastCall.result # "current"
                     /\ LastCall.result = "returned" =>
                           /\ Len(pages) = Len(LastCall.pages) + 1
                           /\ current_page = Len(pages)

\* a page made current by two set_current_page calls in a row carries one
\* registration of the handler
C31_Witness ==
    /\ Len(page_log) = 2
    /\ page_log[1].op = "set" /\ page_log[1].arg # None /\ page_log[1].result = "returned"
    /\ page_log[2].op = "set" /\ page_log[2].arg = page_log[1].arg
    /\ page_log[2].result = "returned" /\ page_log[2].cur = current_page
    /\ current_page \in Tagged(page_log[1])
    /\ pages[current_page].hooks = 1

\* ------------------------------------------------------- the step counter
\* The role whose step is the task's latest
LatestRole == Last(SelectSeq(TaskLog, LAMBDA e : e.state = "step.start")).actor

StepFails == SelectSeq(TaskLog, LAMBDA e : e.state = "step.fail")

\* The counter of a running or finished task moves by one step.fail at a time
ErrorCounted ==
    (loc[1].accepted /\ loc'[1].accepted) =>
        /\ ctx'.error \in {ctx.error, ctx.error + 1}
        /\ ctx'.error = ctx.error + 1 <=> Len(StepFails') = Len(StepFails) + 1

\* C33: within a task the error counter never decreases and is never reset,
\* and at every point it equals the number of step.fail events emitted for
\* the task.  (It holds whether or not a subscriber raises: a closing emit
\* that raises inside a role's try is counted and reported once more.)
C33_ErrorAccounting ==
    /\ [](Accepted(1) => ctx.error = Len(StepFails))
    /\ [][ErrorCounted]_vars

\* two failed steps, a planner's and a navigator's or two of the planner,
\* counted with no awaited operation having raised
C33_Witness ==
    /\ Accepted(1) /\ faults = 0
    /\ ctx.error = 2 /\ Len(StepFails) = 2
    /\ StepFails[1].step < StepFails[2].step

\* ------------------------------------------------- the terminal event last
\* The positions of the task's log holding a task.ok or task.fail event
TerminalAt == {i \in 1..Len(TaskLog) : TaskLog[i].state \in {"task.ok", "task.fail"}}

\* C34: once a task.ok or task.fail event has been emitted for an accepted
\* task, no further event carrying the task's id is emitted (every role
\* invocation emits a step.start, so neither role is invoked again).
\* Refuted, for the reason of C4: the loop's terminal emits are inside the try
\* of the top-level handler, which answers a raising delivery with a second
\* task.fail.
C34_TerminalLast ==
    Accepted(1) => \A i \in TerminalAt : i = Len(TaskLog)

\* ------------------------------------------------- the gate and the task id
\* C35: while an accepted run() is executing, the bound-task marker holds its
\* task id and the bound test reads it as a bound task, whatever the id, so a
\* concurrent run() is rejected.  Refuted: the test is a truth-value test and
\* the empty id is false.
C35_GateBindsEveryId ==
    \A p \in Callers :
        Executing(p) =>
            /\ TaskBound(current_task_id)
            /\ current_task_id = loc[p].task_id
            /\ \A q \in Callers \ {p} : ~ Executing(q)

\* ------------------------------------------- the server's single-flight
\* This step is the TaskManager accepting a create request
CreateAccepted == server'.created # server.created

\* C36: whenever the TaskManager accepts a create request the engine's gate
\* is free, so that no run() started for a task the TaskManager accepted is
\* rejected by the gate.  Refuted: the server's event handler closes the
\* TaskManager's task while the terminal event is still being delivered, and
\* the gate is released only after the delivery.
C36_SingleFlightAgree ==
    /\ [][CreateAccepted => ~TaskBound(current_task_id)]_vars
    /\ [](\A p \in Callers : loc[p].task_id \in server.created => ~Rejected(p))

\* ------------------------------------------------- the recorded event list
\* The events recorded for task id: in the current task's record, else in its
\* file
Recorded(id) ==
    IF current_task # NoTask /\ current_task.id = id THEN current_task.steps
    ELSE saved[id].task.steps

\* C37: every event emitted for a task the TaskManager accepted is appended
\* to the task's record exactly once and in emission order, whether or not a
\* client is connected: the record is the sequence of the task's events
\* whose handler call is over, with at most the one being sent ahead.
\* Refuted: the handler records inside its loop over the connections.
C37_EventsRecorded ==
    \A id \in server.created :
        \E n \in {server.served[id], server.served[id] + 1} :
            /\ n <= Len(events[id])
            /\ Recorded(id) = SubSeq(events[id], 1, n)

\* ------------------------------------------------ the histories' ownership
\* History h is kept as the beginning of history g
KeptIn(h, g) == Len(h) <= Len(g) /\ SubSeq(g, 1, Len(h)) = h

\* No message one role puts into its history is found in the other's: the
\* roles' system messages and the navigator's tool messages tell them apart
NoForeignMessage ==
    /\ \A i \in DOMAIN navigator_history : navigator_history[i] # SystemMessage("planner")
    /\ \A i \in DOMAIN planner_history :
          /\ planner_history[i] # SystemMessage("navigator")
          /\ planner_history[i].role # "tool"

\* A step that appends to the planner's history leaves the navigator's as it is
\* or, when the navigator is entered in the same step, freshly cleared; a step
\* that appends to or clears the navigator's history keeps the planner's.
OwnHistoryOnly ==
    /\ (Len(planner_history') > Len(planner_history) /\ KeptIn(planner_history, planner_history')) =>
           navigator_history' \in {navigator_history, <<SystemMessage("navigator")>>}
    /\ (Len(navigator_history') > Len(navigator_history)
           /\ KeptIn(navigator_history, navigator_history')) =>
           planner_history' = planner_history
    /\ (navigator_history' = <<SystemMessage("navigator")>> /\ pc'[1] = "n_start") =>
           KeptIn(planner_history, planner_history')

\* C38: from the binding of a task on, the planner's and the navigator's
\* histories are distinct list objects, a message appended to one role's
\* history does not appear in the other's, and clearing the navigator's
\* history at a sub-task start leaves the planner's history as it was.
C38_HistoriesOwned ==
    /\ []((\E p \in Callers : Accepted(p)) => ~Aliased(messages_of) /\ NoForeignMessage)
    /\ [][OwnHistoryOnly]_vars

\* the navigator entered for a second sub-task: its history cleared to the
\* system message while the planner's holds both planner steps
C38_Witness ==
    /\ pc[1] = "n_start" /\ ctx.step = 4
    /\ navigator_history = <<SystemMessage("navigator")>>
    /\ AiCount(planner_history) = 2
    /\ messages_of = OwnLists

\* ------------------------------------------------ a task under cancellation
\* The cancel flag is set and stays set over this step
CancelSet == stop_task_now = "true" /\ stop_task_now' = "true"

\* This step starts no call of the decision service and no tool call
NoCallStarted ==
    /\ pc'[1] \in {"n_llm", "n_tool"} => pc[1] = pc'[1]
    /\ (pc[1] = "p_page" /\ pc'[1] # "p_page") => loc'[1].llm_calls = 0

\* This step emits the task's terminal event
TerminalNow ==
    /\ Len(TaskLog') = Len(TaskLog) + 1
    /\ Last(TaskLog').state \in {"task.ok", "task.fail"}

\* A role entered in this step counts a step
RoleEntryCounted ==
    (Len(TaskLog') = Len(TaskLog) + 1 /\ Last(TaskLog').state = "step.start") =>
        /\ ctx'.step = ctx.step + 1
        /\ Last(TaskLog').step = ctx'.step

NoTaskCancel == \A id \in TaskIds : StateIs(events[id], "task.cancel") = <<>>

\* A task running with the flag set ends
CancelledEnds == (stop_task_now = "true" /\ Executing(1)) ~> Ended(1)

CancelledStepAsStated ==
    CancelSet =>
        /\ NoCallStarted
        /\ ctx'.error = ctx.error
        /\ RoleEntryCounted
        /\ TerminalNow => Last(TaskLog').state = "task.fail"

CancelledStep ==
    CancelSet =>
        /\ NoCallStarted
        /\ ctx'.error # ctx.error => faults' # faults
        /\ RoleEntryCounted
        /\ TerminalNow =>
              \/ Last(TaskLog').state = "task.fail"
              \/ pc[1] = "p_ok_emit" /\ loc[1].result.terminated /\ faults' = faults

EmitsFor(p, st) ==
    /\ loc[p].task_id \in TaskIds /\ loc'[p].task_id = loc[p].task_id
    /\ Len(LogOf(p)') = Len(LogOf(p)) + 1
    /\ Last(LogOf(p)').state = st

\* The step budget tested by the loop is the bound run()'s argument: a planner
\* is entered only below it, and the max-steps failure is emitted only at it
BudgetEnforced(p) ==
    /\ (EmitsFor(p, "step.start") /\ Last(LogOf(p)').actor = "planner") =>
           ctx.step < loc[p].max_steps
    /\ (EmitsFor(p, "task.fail") /\ Last(LogOf(p)').details = MaxStepsMsg(ctx.step)) =>
           ctx.step >= loc[p].max_steps

BudgetsKept ==
    /\ ctx'.max_errors = ctx.max_errors
    /\ ctx'.max_tool_rounds = ctx.max_tool_rounds
    /\ \A p \in Callers :
          /\ (loc'[p].accepted /\ ~loc[p].accepted) => ctx'.max_steps = loc'[p].max_steps
          /\ BudgetEnforced(p)

\* C40: the step budget enforced during a task is the max_steps argument of
\* its run() call, which overwrites the context's max_steps when the task is
\* bound, whatever value the engine was constructed with; max_errors and
\* max_tool_rounds keep their construction-time values for every task.
C40_RunArgumentIsBudget ==
    /\ [](\A p \in Callers : Executing(p) => ctx.max_steps = loc[p].max_steps)
    /\ [][BudgetsKept]_vars

\* a second task given two steps after a first given one: its second planner
\* step has started, beyond the first task's budget
C40_Witness ==
    \E p, q \in Callers :
        /\ Accepted(p) /\ Ended(p) /\ loc[p].max_steps = 1
        /\ Last(LogOf(p)).details = MaxStepsMsg(1)
        /\ Executing(q) /\ loc[q].max_steps = 2
        /\ pc[q] = "p_start" /\ ctx.step = 2 /\ ctx.max_steps = 2

====
